---- MODULE Spec2Model ----
(***************************************************************************)
(* Library API: two in-memory tables (authors, books) behind Express       *)
(* handlers.  Every request runs its validation middleware and its route   *)
(* handler to completion, so each handler is one action.  A handler is     *)
(* written as an operator from the tables and the request to the response  *)
(* and the tables it leaves; the action of the same route applies it.      *)
(* Spec takes a request as one step.  StepSpec takes a book request as its  *)
(* two callbacks, the validation and the route handler.  QuerySpec examines *)
(* the list query of GET /books on tables of up to MaxListed Books.         *)
(***************************************************************************)
EXTENDS Integers, Sequences, FiniteSets

\* ------------------------------------------------------------------ bounds
\* Largest number of Author records the model lets the table hold.
MaxAuthors == 2
\* Largest number of Book records the model lets the table hold.
MaxBooks == 2
\* Largest id the model lets a create assign (ids grow without bound in the code).
MaxId == 2
\* Largest number of Books in a table the list query is examined on.
MaxListed == 3

\* ------------------------------------------------------- JavaScript values
\* A JSON request field is undefined (absent), a number or a string; a string
\* is a sequence of characters.
Undefined == [type |-> "undefined"]
Num(n) == [type |-> "number", val |-> n]
Str(s) == [type |-> "string", val |-> s]

\* typeof v
TypeOf(v) == v.type

\* NaN, the number that Number(x) gives for a string that is no numeral.
NaN == [type |-> "number", nan |-> TRUE]
\* A repeated query parameter (?title=a&title=b) arrives as an array.
ArrayValue == [type |-> "object"]

\* !v : undefined, the empty string, the number 0 and NaN are falsy.
Falsy(v) ==
  \/ v.type = "undefined"
  \/ v = NaN
  \/ v.type = "string" /\ v.val = <<>>
  \/ v.type = "number" /\ v # NaN /\ v.val = 0

\* String.prototype.toLowerCase, character by character.
LowerChar(c) == IF c = "A" THEN "a" ELSE IF c = "B" THEN "b" ELSE c
ToLowerCase(s) == [i \in 1..Len(s) |-> LowerChar(s[i])]

\* String.prototype.trim: drops leading and trailing white space.
IsSpace(c) == c = " "
RECURSIVE TrimStart(_)
TrimStart(s) ==
  IF s # <<>> /\ IsSpace(Head(s)) THEN TrimStart(Tail(s)) ELSE s
RECURSIVE TrimEnd(_)
TrimEnd(s) ==
  IF s # <<>> /\ IsSpace(s[Len(s)]) THEN TrimEnd(SubSeq(s, 1, Len(s) - 1)) ELSE s
Trim(s) == TrimEnd(TrimStart(s))

\* Array.prototype.splice(i, 1) on a 1-based sequence: drops the element at i.
Splice(arr, i) == SubSeq(arr, 1, i - 1) \o SubSeq(arr, i + 1, Len(arr))

\* Array.prototype.findIndex on the id field, 1-based; 0 stands for -1.
RECURSIVE FindIndexFrom(_, _, _)
FindIndexFrom(arr, id, i) ==
  IF i > Len(arr) THEN 0
  ELSE IF arr[i].id = id THEN i
  ELSE FindIndexFrom(arr, id, i + 1)
FindIndex(arr, id) == FindIndexFrom(arr, id, 1)

\* String.prototype.includes: sub occurs in s as a substring.
Includes(s, sub) ==
  \E i \in 0..(Len(s) - Len(sub)) : SubSeq(s, i + 1, i + Len(sub)) = sub

\* String.prototype.split(sep) for a one-character separator: the pieces of s
\* between the occurrences of sep.
RECURSIVE SplitFrom(_, _, _)
SplitFrom(s, sep, piece) ==
  IF s = <<>> THEN << piece >>
  ELSE IF Head(s) = sep THEN << piece >> \o SplitFrom(Tail(s), sep, <<>>)
  ELSE SplitFrom(Tail(s), sep, Append(piece, Head(s)))
Split(s, sep) == SplitFrom(s, sep, <<>>)

\* The UTF-16 code units of the characters the model uses, which the relational
\* operators of JavaScript compare strings by.
CharCode(c) ==
  CASE c = " " -> 32
    [] c = "-" -> 45
    [] c = "0" -> 48
    [] c = "1" -> 49
    [] c = "2" -> 50
    [] c = "3" -> 51
    [] c = "4" -> 52
    [] c = "5" -> 53
    [] c = "6" -> 54
    [] c = "7" -> 55
    [] c = "8" -> 56
    [] c = "9" -> 57
    [] c = "A" -> 65
    [] c = "B" -> 66
    [] c = "_" -> 95
    [] c = "a" -> 97
    [] c = "b" -> 98
    [] OTHER -> 120

\* s < t for two strings: the first differing code unit decides, a proper
\* prefix is smaller.
RECURSIVE StringLess(_, _)
StringLess(s, t) ==
  IF t = <<>> THEN FALSE
  ELSE IF s = <<>> THEN TRUE
  ELSE IF Head(s) # Head(t) THEN CharCode(Head(s)) < CharCode(Head(t))
  ELSE StringLess(Tail(s), Tail(t))

\* Number(v) for a string: white space is stripped, the empty string is 0, a
\* decimal numeral with an optional minus sign is its value, anything else NaN.
IsDigit(c) == CharCode(c) >= 48 /\ CharCode(c) <= 57
RECURSIVE DecimalValue(_, _)
DecimalValue(s, acc) ==
  IF s = <<>> THEN acc
  ELSE DecimalValue(Tail(s), 10 * acc + (CharCode(Head(s)) - 48))
ToNumber(v) ==
  IF TypeOf(v) # "string" THEN NaN
  ELSE
    LET t == Trim(v.val)
        AllDigits(u) == u # <<>> /\ \A i \in 1..Len(u) : IsDigit(u[i])
    IN
    IF t = <<>> THEN Num(0)
    ELSE IF AllDigits(t) THEN Num(DecimalValue(t, 0))
    ELSE IF Head(t) = "-" /\ AllDigits(Tail(t)) THEN Num(0 - DecimalValue(Tail(t), 0))
    ELSE NaN

\* Math.max(1, x): NaN if x is NaN.
MathMax1(x) == IF x = NaN THEN NaN ELSE IF x.val < 1 THEN Num(1) ELSE x

\* Array.prototype.slice(start, end) for start, end >= 0 or NaN: NaN counts as
\* 0 and both ends are clamped to the length.
Slice(arr, start, end) ==
  LET from == IF start = NaN THEN 0 ELSE IF start.val > Len(arr) THEN Len(arr) ELSE start.val
      to == IF end = NaN THEN 0 ELSE IF end.val > Len(arr) THEN Len(arr) ELSE end.val
  IN SubSeq(arr, from + 1, to)

\* VALID_SORT_FIELDS, each name as its characters.
TitleField == <<"t", "i", "t", "l", "e">>
YearField == <<"y", "e", "a", "r">>
IdField == <<"i", "d">>
AuthorIdField == <<"a", "u", "t", "h", "o", "r", "I", "d">>
VALID_SORT_FIELDS == { TitleField, YearField, IdField, AuthorIdField }
Desc == <<"d", "e", "s", "c">>

\* ------------------------------------------------------------ request inputs
\* Names and titles a request may carry: absent, not a string, empty, blank,
\* and strings that differ only by case or surrounding white space.
StringInputs ==
  { Undefined, Num(1), Str(<<>>), Str(<<" ">>),
    Str(<<"a">>), Str(<<" ", "A">>), Str(<<"b", " ">>) }
BioInputs == { Undefined, Str(<<"a">>) }
YearInputs == { Undefined, Num(1), Str(<<"a">>) }
\* The :id route parameter after Number(req.params.id): every id the model
\* assigns and one it never assigns.
IdInputs == 1..(MaxId + 1)
\* authorId in a book body: absent, a string, or a number.
AuthorIdInputs == { Undefined, Str(<<"a">>) } \cup { Num(i) : i \in IdInputs }

\* The request bodies the handlers are examined on.
AuthorBodies == [name : StringInputs, bio : BioInputs]
BookBodies == [title : StringInputs, year : YearInputs, authorId : AuthorIdInputs]

\* The request bodies the model sends.  A body that fails validation leaves
\* the tables as they are, so one failing value per field is sent; bio is
\* copied and never read, so one value of it is sent.
SentStrings == { Str(<<" ">>), Str(<<"a">>), Str(<<" ", "A">>), Str(<<"b", " ">>) }
SentAuthorBodies == [name : SentStrings, bio : { Undefined }]
SentBookBodies ==
  [title : SentStrings, year : { Undefined, Num(1) },
   authorId : { Str(<<"a">>) } \cup { Num(i) : i \in IdInputs }]

\* The query string of GET /books.  Each parameter is absent or a string;
\* title, author and sort may also arrive as an array.
SortStrings ==
  { YearField \o <<"_">> \o <<"a", "s", "c">>,
    YearField \o <<"_">> \o Desc,
    TitleField \o <<"_">> \o <<"a", "s", "c">>,
    TitleField \o <<"_">> \o Desc,
    IdField \o <<"_">> \o Desc,
    AuthorIdField \o <<"_">> \o Desc,
    AuthorIdField,
    YearField \o <<"_">> \o Desc \o <<"_">> \o <<"x">>,
    <<"x">> \o <<"_">> \o Desc,
    <<"_">> \o Desc }
SortParams == { Undefined, ArrayValue } \cup { Str(t) : t \in SortStrings }
TitleParams == { Undefined, ArrayValue, Str(<<"a">>), Str(<<"B">>), Str(<<"b", "a">>) }
AuthorParams == { Undefined, ArrayValue, Str(<<"A">>), Str(<<"b">>) }
YearParams == { Undefined, Str(<<"1">>), Str(<<" ", "2">>), Str(<<"3">>), Str(<<"a">>) }
LimitParams ==
  { Undefined, Str(<<"1">>), Str(<<"2">>), Str(<<"3">>), Str(<<"0">>),
    Str(<<"-", "1">>), Str(<<"a">>) }
PageParams ==
  { Undefined, Str(<<"1">>), Str(<<"2">>), Str(<<"3">>), Str(<<"0">>),
    Str(<<"-", "1">>), Str(<<"a">>) }

\* A query with no parameter, and the queries the model sends: every value
\* of the sort parameter, one value of each other parameter, limit with
\* page, and all parameters at once.
NoQuery ==
  [title |-> Undefined, author |-> Undefined, year |-> Undefined,
   sort |-> Undefined, limit |-> Undefined, page |-> Undefined]
SentQueries ==
  { [NoQuery EXCEPT !.sort = x] : x \in SortParams }
  \cup { [NoQuery EXCEPT !.title = Str(<<"a">>)],
         [NoQuery EXCEPT !.author = Str(<<"b">>)],
         [NoQuery EXCEPT !.year = Str(<<"1">>)],
         [NoQuery EXCEPT !.limit = Str(<<"1">>), !.page = Str(<<"2">>)],
         [NoQuery EXCEPT !.limit = Str(<<"a">>)],
         [NoQuery EXCEPT !.page = Str(<<"a">>)],
         [title |-> Str(<<"a">>), author |-> Str(<<"A">>), year |-> Str(<<"1">>),
          sort |-> Str(YearField \o <<"_">> \o Desc),
          limit |-> Str(<<"1">>), page |-> Str(<<"1">>)] }

\* The queries GET /books is examined on: every combination of a present and
\* an absent filter with every sort, limit and page.
AllQueries ==
  [title : { Undefined, Str(<<"a">>) }, author : { Undefined, Str(<<"b">>) },
   year : { Undefined, Str(<<"1">>) },
   sort : { Undefined, Str(YearField \o <<"_">> \o <<"a", "s", "c">>),
            Str(TitleField \o <<"_">> \o Desc), Str(IdField \o <<"_">> \o Desc),
            Str(AuthorIdField), Str(<<"x">> \o <<"_">> \o Desc) },
   limit : { Undefined, Str(<<"2">>) },
   page : { Undefined, Str(<<"2">>), Str(<<"a">>) }]

\* ------------------------------------------------------------------- state
VARIABLES
  authors,          \* the authors array, in insertion order
  books,            \* the books array, in insertion order
  issuedAuthorIds,  \* history: every id a successful POST /authors has assigned
  issuedBookIds,    \* history: every id a successful POST /books has assigned
  gone,             \* history: the authors deleted, and the books they owned,
                    \* since the last successful create
  inflight          \* the book request that validateBookPayload has passed on
                    \* with next() and whose route handler has not run yet,
                    \* with the tables as the validation saw them

vars == <<authors, books, issuedAuthorIds, issuedBookIds, gone, inflight>>

\* No request is between its validation and its route handler.
None == [route |-> "none"]

AuthorIds == { authors[i].id : i \in 1..Len(authors) }
BookIds == { books[i].id : i \in 1..Len(books) }

Init ==
  /\ authors = <<>>
  /\ books = <<>>
  /\ issuedAuthorIds = {}
  /\ issuedBookIds = {}
  /\ gone = [authors |-> {}, books |-> {}]
  /\ inflight = None

\* What a handler leaves behind: the response (status and JSON body) and the
\* two tables.
Result(status, body, as, bs) ==
  [status |-> status, body |-> body, authors |-> as, books |-> bs]
\* res.status(code).json({ error: message }) with the tables untouched.
Fail(status, message) == Result(status, [error |-> message], authors, books)

\* ----------------------------------------------------------------- models
\* Variant of getNextAuthorId: authors.length + 1.
getNextAuthorIdByLength == Len(authors) + 1

\* getNextAuthorId: 1 on an empty table, else Math.max(...ids) + 1.
MaxOf(S) == CHOOSE m \in S : \A x \in S : x <= m
getNextAuthorId ==
  IF Len(authors) = 0 THEN 1 ELSE MaxOf(AuthorIds) + 1

\* books.reduce((max, b) => Math.max(max, b.id), max0)
RECURSIVE ReduceMaxId(_, _, _)
ReduceMaxId(arr, i, max) ==
  IF i > Len(arr) THEN max
  ELSE ReduceMaxId(arr, i + 1, IF arr[i].id > max THEN arr[i].id ELSE max)

\* Variant of getNextBookId: books.length + 1.
getNextBookIdByLength == Len(books) + 1

\* Variant of getNextBookId: the reduce result without the increment.
getNextBookIdNoIncrement == ReduceMaxId(books, 1, 0)

\* getNextBookId: books.reduce((max, b) => Math.max(max, b.id), 0) + 1.
getNextBookId == ReduceMaxId(books, 1, 0) + 1

\* -------------------------------------------------------------- validation
\* validateAuthorPayload: Pass stands for next(), anything else is the
\* message of the 400 response.
Pass == "next()"
ErrAuthorName == "Author validation failed: \"name\" is required (non-empty string)."
validateAuthorPayload(body) ==
  IF Falsy(body.name) \/ TypeOf(body.name) # "string" \/ Trim(body.name.val) = <<>>
  THEN ErrAuthorName
  ELSE Pass

ErrBookTitle == "Book validation failed: \"title\" is required (non-empty string)."
ErrBookAuthorId == "Book validation failed: \"authorId\" is required (number)."
ErrBookAuthorMissing == "Book validation failed: referenced authorId does not exist."
ErrBookYear == "Book validation failed: \"year\" must be a number if provided."

\* Variant of validateBookPayload: the lookup of the author is left out.
validateBookPayloadNoLookup(body) ==
  IF Falsy(body.title) \/ TypeOf(body.title) # "string" \/ Trim(body.title.val) = <<>>
  THEN ErrBookTitle
  ELSE IF body.authorId = Undefined \/ TypeOf(body.authorId) # "number"
  THEN ErrBookAuthorId
  ELSE IF body.year # Undefined /\ TypeOf(body.year) # "number"
  THEN ErrBookYear
  ELSE Pass

\* Variant of validateBookPayload: the year is checked before the author is
\* looked up.
validateBookPayloadYearFirst(body) ==
  IF Falsy(body.title) \/ TypeOf(body.title) # "string" \/ Trim(body.title.val) = <<>>
  THEN ErrBookTitle
  ELSE IF body.authorId = Undefined \/ TypeOf(body.authorId) # "number"
  THEN ErrBookAuthorId
  ELSE IF body.year # Undefined /\ TypeOf(body.year) # "number"
  THEN ErrBookYear
  ELSE IF ~(\E i \in 1..Len(authors) : authors[i].id = body.authorId.val)
  THEN ErrBookAuthorMissing
  ELSE Pass

\* validateBookPayload: the four checks in the order of the code.
validateBookPayload(body) ==
  IF Falsy(body.title) \/ TypeOf(body.title) # "string" \/ Trim(body.title.val) = <<>>
  THEN ErrBookTitle
  ELSE IF body.authorId = Undefined \/ TypeOf(body.authorId) # "number"
  THEN ErrBookAuthorId
  ELSE IF ~(\E i \in 1..Len(authors) : authors[i].id = body.authorId.val)
  THEN ErrBookAuthorMissing
  ELSE IF body.year # Undefined /\ TypeOf(body.year) # "number"
  THEN ErrBookYear
  ELSE Pass

\* ---------------------------------------------------------- authors router
\* Variant of POST /authors: the duplicate check compares without toLowerCase.
PostAuthorHandlerCaseSensitive(body) ==
  LET v == validateAuthorPayload(body) IN
  IF v # Pass THEN Fail(400, v)
  ELSE
    LET name == Trim(body.name.val)
        duplicate == \E i \in 1..Len(authors) : authors[i].name = name
        author == [id |-> getNextAuthorId, name |-> name, bio |-> body.bio]
    IN
    IF duplicate THEN Fail(409, "Author already exists.")
    ELSE Result(201, author, Append(authors, author), books)

\* router.post('/', validateAuthorPayload, ...)
PostAuthorHandler(body) ==
  LET v == validateAuthorPayload(body) IN
  IF v # Pass THEN Fail(400, v)
  ELSE
    LET name == Trim(body.name.val)
        duplicate == \E i \in 1..Len(authors) :
                       ToLowerCase(authors[i].name) = ToLowerCase(name)
        author == [id |-> getNextAuthorId, name |-> name, bio |-> body.bio]
    IN
    IF duplicate THEN Fail(409, "Author already exists.")
    ELSE Result(201, author, Append(authors, author), books)

\* router.get('/')
GetAuthorsHandler == Result(200, authors, authors, books)

\* router.get('/:id')
GetAuthorHandler(id) ==
  LET index == FindIndex(authors, id) IN
  IF index = 0 THEN Fail(404, "Author not found.")
  ELSE Result(200, authors[index], authors, books)

\* Variant of PUT /authors/:id: the duplicate check compares the untrimmed name.
PutAuthorHandlerUntrimmed(id, body) ==
  LET v == validateAuthorPayload(body)
      index == FindIndex(authors, id)
  IN
  IF v # Pass THEN Fail(400, v)
  ELSE IF index = 0 THEN Fail(404, "Author not found.")
  ELSE
    LET name == Trim(body.name.val)
        dup == \E i \in 1..Len(authors) :
                 /\ ToLowerCase(authors[i].name) = ToLowerCase(body.name.val)
                 /\ authors[i].id # id
        author == [authors[index] EXCEPT !.name = name, !.bio = body.bio]
    IN
    IF dup THEN Fail(409, "Another author with the same name exists.")
    ELSE Result(200, author, [authors EXCEPT ![index] = author], books)

\* Variant of PUT /authors/:id: the Author is taken out of the array and the
\* updated record is pushed at its end.
PutAuthorHandlerMoveToEnd(id, body) ==
  LET v == validateAuthorPayload(body)
      index == FindIndex(authors, id)
  IN
  IF v # Pass THEN Fail(400, v)
  ELSE IF index = 0 THEN Fail(404, "Author not found.")
  ELSE
    LET name == Trim(body.name.val)
        dup == \E i \in 1..Len(authors) :
                 /\ ToLowerCase(authors[i].name) = ToLowerCase(name)
                 /\ authors[i].id # id
        author == [authors[index] EXCEPT !.name = name, !.bio = body.bio]
    IN
    IF dup THEN Fail(409, "Another author with the same name exists.")
    ELSE Result(200, author, Append(Splice(authors, index), author), books)

\* Variant of PUT /authors/:id: the name and the bio are written before the
\* duplicate check, so a 409 leaves the new name behind.
PutAuthorHandlerWriteFirst(id, body) ==
  LET v == validateAuthorPayload(body)
      index == FindIndex(authors, id)
  IN
  IF v # Pass THEN Fail(400, v)
  ELSE IF index = 0 THEN Fail(404, "Author not found.")
  ELSE
    LET name == Trim(body.name.val)
        dup == \E i \in 1..Len(authors) :
                 /\ ToLowerCase(authors[i].name) = ToLowerCase(name)
                 /\ authors[i].id # id
        author == [authors[index] EXCEPT !.name = name, !.bio = body.bio]
        written == [authors EXCEPT ![index] = author]
    IN
    IF dup THEN Result(409, [error |-> "Another author with the same name exists."],
                       written, books)
    ELSE Result(200, author, written, books)

\* Variant of PUT /authors/:id: the duplicate check runs before the lookup of
\* the id, so a name in use is refused 409 for an id of no Author.
PutAuthorHandlerConflictFirst(id, body) ==
  LET v == validateAuthorPayload(body)
      index == FindIndex(authors, id)
  IN
  IF v # Pass THEN Fail(400, v)
  ELSE
    LET name == Trim(body.name.val)
        dup == \E i \in 1..Len(authors) :
                 /\ ToLowerCase(authors[i].name) = ToLowerCase(name)
                 /\ authors[i].id # id
    IN
    IF dup THEN Fail(409, "Another author with the same name exists.")
    ELSE IF index = 0 THEN Fail(404, "Author not found.")
    ELSE LET author == [authors[index] EXCEPT !.name = name, !.bio = body.bio]
         IN Result(200, author, [authors EXCEPT ![index] = author], books)

\* Variant of PUT /authors/:id: the duplicate check does not leave out the
\* Author that is updated.
PutAuthorHandlerNoSelfExclusion(id, body) ==
  LET v == validateAuthorPayload(body)
      index == FindIndex(authors, id)
  IN
  IF v # Pass THEN Fail(400, v)
  ELSE IF index = 0 THEN Fail(404, "Author not found.")
  ELSE
    LET name == Trim(body.name.val)
        dup == \E i \in 1..Len(authors) :
                 ToLowerCase(authors[i].name) = ToLowerCase(name)
        author == [authors[index] EXCEPT !.name = name, !.bio = body.bio]
    IN
    IF dup THEN Fail(409, "Another author with the same name exists.")
    ELSE Result(200, author, [authors EXCEPT ![index] = author], books)

\* router.put('/:id', validateAuthorPayload, ...)
PutAuthorHandler(id, body) ==
  LET v == validateAuthorPayload(body)
      index == FindIndex(authors, id)
  IN
  IF v # Pass THEN Fail(400, v)
  ELSE IF index = 0 THEN Fail(404, "Author not found.")
  ELSE
    LET name == Trim(body.name.val)
        dup == \E i \in 1..Len(authors) :
                 /\ ToLowerCase(authors[i].name) = ToLowerCase(name)
                 /\ authors[i].id # id
        author == [authors[index] EXCEPT !.name = name, !.bio = body.bio]
    IN
    IF dup THEN Fail(409, "Another author with the same name exists.")
    ELSE Result(200, author, [authors EXCEPT ![index] = author], books)

\* The cascade loop of router.delete('/:id'):
\*   for (i = books.length - 1; i >= 0; i--)
\*     if (books[i].authorId === id) books.splice(i, 1)
RECURSIVE CascadeFrom(_, _, _)
CascadeFrom(bs, id, i) ==
  IF i < 1 THEN bs
  ELSE CascadeFrom(IF bs[i].authorId = id THEN Splice(bs, i) ELSE bs, id, i - 1)

\* Variant of the cascade loop: it runs forward, so a splice shifts the next
\* Book under the index that was just visited.
RECURSIVE CascadeForwardFrom(_, _, _)
CascadeForwardFrom(bs, id, i) ==
  IF i > Len(bs) THEN bs
  ELSE CascadeForwardFrom(IF bs[i].authorId = id THEN Splice(bs, i) ELSE bs, id, i + 1)
CascadeDeleteForward(bs, id) == CascadeForwardFrom(bs, id, 1)

\* Variant of the cascade loop: it stops after the first splice, so only the
\* last Book of the Author is removed.
CascadeDeleteFirstHit(bs, id) ==
  LET hits == { i \in 1..Len(bs) : bs[i].authorId = id } IN
  IF hits = {} THEN bs
  ELSE Splice(bs, CHOOSE i \in hits : \A j \in hits : j <= i)

CascadeDelete(bs, id) == CascadeFrom(bs, id, Len(bs))

\* The books array after each pass of the cascade loop, from index i down.
RECURSIVE CascadeStepsFrom(_, _, _)
CascadeStepsFrom(bs, id, i) ==
  IF i < 1 THEN <<>>
  ELSE LET passed == IF bs[i].authorId = id THEN Splice(bs, i) ELSE bs
       IN << passed >> \o CascadeStepsFrom(passed, id, i - 1)

\* Variant of the steps of router.delete('/:id'): authors.splice runs before
\* the cascade loop.
DeleteAuthorStepsAuthorFirst(id) ==
  LET index == FindIndex(authors, id)
      loop == CascadeStepsFrom(books, id, Len(books))
      without == Splice(authors, index)
  IN
  IF index = 0 THEN << [authors |-> authors, books |-> books] >>
  ELSE << [authors |-> authors, books |-> books],
          [authors |-> without, books |-> books] >>
       \o [k \in 1..Len(loop) |-> [authors |-> without, books |-> loop[k]]]

\* The two arrays at every step boundary inside router.delete('/:id'): when
\* the handler starts, after each pass of the cascade loop, and after
\* authors.splice.
DeleteAuthorSteps(id) ==
  LET index == FindIndex(authors, id)
      loop == CascadeStepsFrom(books, id, Len(books))
      cascaded == IF loop = <<>> THEN books ELSE loop[Len(loop)]
  IN
  IF index = 0 THEN << [authors |-> authors, books |-> books] >>
  ELSE << [authors |-> authors, books |-> books] >>
       \o [k \in 1..Len(loop) |-> [authors |-> authors, books |-> loop[k]]]
       \o << [authors |-> Splice(authors, index), books |-> cascaded] >>

\* Variant of DELETE /authors/:id: the author is removed, the books are kept.
DeleteAuthorHandlerNoCascade(id) ==
  LET index == FindIndex(authors, id) IN
  IF index = 0 THEN Fail(404, "Author not found.")
  ELSE Result(200, [deleted |-> authors[index]], Splice(authors, index), books)

\* router.delete('/:id')
DeleteAuthorHandler(id) ==
  LET index == FindIndex(authors, id) IN
  IF index = 0 THEN Fail(404, "Author not found.")
  ELSE Result(200, [deleted |-> authors[index]],
              Splice(authors, index), CascadeDelete(books, id))

\* Array.prototype.filter on the authorId field.
RECURSIVE FilterByAuthorId(_, _)
FilterByAuthorId(bs, id) ==
  IF bs = <<>> THEN <<>>
  ELSE (IF Head(bs).authorId = id THEN <<Head(bs)>> ELSE <<>>)
         \o FilterByAuthorId(Tail(bs), id)

\* router.get('/:id/books')
GetAuthorBooksHandler(id) ==
  IF FindIndex(authors, id) = 0 THEN Fail(404, "Author not found.")
  ELSE Result(200, FilterByAuthorId(books, id), authors, books)

\* ------------------------------------------------------------ books router
\* router.post('/', validateBookPayload, ...)
PostBookHandler(body) ==
  LET v == validateBookPayload(body) IN
  IF v # Pass THEN Fail(400, v)
  ELSE
    LET title == Trim(body.title.val)
        authorId == body.authorId.val
        dup == \E i \in 1..Len(books) :
                 /\ ToLowerCase(books[i].title) = ToLowerCase(title)
                 /\ books[i].authorId = authorId
        book == [id |-> getNextBookId, title |-> title,
                 year |-> body.year, authorId |-> authorId]
    IN
    IF dup THEN Fail(409, "Duplicate book for this author.")
    ELSE Result(201, book, authors, Append(books, book))

\* a[sortField] for a Book a.
FieldValue(b, sortField) ==
  CASE sortField = TitleField -> Str(b.title)
    [] sortField = YearField -> b.year
    [] sortField = IdField -> Num(b.id)
    [] sortField = AuthorIdField -> Num(b.authorId)

\* valA < valB for two values of one field: numbers by value, strings by
\* code units.
ValueLess(valA, valB) ==
  IF TypeOf(valA) = "string" THEN StringLess(valA.val, valB.val)
  ELSE valA.val < valB.val

\* Variant of the comparator: a missing value counts as the smallest value,
\* so it comes last ascending and first descending.
CompareBooksUndefinedSmallest(a, b, sortField, isDescending) ==
  LET valA == FieldValue(a, sortField)
      valB == FieldValue(b, sortField)
  IN
  IF valA = Undefined /\ valB = Undefined THEN 0
  ELSE IF valA = Undefined THEN (IF isDescending THEN -1 ELSE 1)
  ELSE IF valB = Undefined THEN (IF isDescending THEN 1 ELSE -1)
  ELSE IF ValueLess(valA, valB) THEN (IF isDescending THEN 1 ELSE -1)
  ELSE IF ValueLess(valB, valA) THEN (IF isDescending THEN -1 ELSE 1)
  ELSE 0

\* The comparator handed to results.sort.
CompareBooks(a, b, sortField, isDescending) ==
  LET valA == FieldValue(a, sortField)
      valB == FieldValue(b, sortField)
  IN
  IF valA = Undefined /\ valB = Undefined THEN 0
  ELSE IF valA = Undefined THEN 1
  ELSE IF valB = Undefined THEN -1
  ELSE IF ValueLess(valA, valB) THEN (IF isDescending THEN 1 ELSE -1)
  ELSE IF ValueLess(valB, valA) THEN (IF isDescending THEN -1 ELSE 1)
  ELSE 0

\* Variant of the sort: a Book goes in front of the Books already placed
\* that compare equal to it, so equal Books end up in reverse order.
InsertBookBeforeEqual(sorted, x, sortField, isDescending) ==
  LET after == { i \in 1..Len(sorted) :
                   CompareBooks(sorted[i], x, sortField, isDescending) >= 0 }
      at == IF after = {} THEN Len(sorted) + 1
            ELSE CHOOSE i \in after : \A j \in after : i <= j
  IN SubSeq(sorted, 1, at - 1) \o << x >> \o SubSeq(sorted, at, Len(sorted))

\* Array.prototype.sort with that comparator.  The sort is stable, so each
\* Book, taken in the order of the array, goes behind every Book already
\* placed that the comparator does not put after it.
InsertBook(sorted, x, sortField, isDescending) ==
  LET after == { i \in 1..Len(sorted) :
                   CompareBooks(sorted[i], x, sortField, isDescending) > 0 }
      at == IF after = {} THEN Len(sorted) + 1
            ELSE CHOOSE i \in after : \A j \in after : i <= j
  IN SubSeq(sorted, 1, at - 1) \o << x >> \o SubSeq(sorted, at, Len(sorted))
RECURSIVE SortBooksFrom(_, _, _, _, _)
SortBooksFrom(arr, i, sorted, sortField, isDescending) ==
  IF i > Len(arr) THEN sorted
  ELSE SortBooksFrom(arr, i + 1, InsertBook(sorted, arr[i], sortField, isDescending),
                     sortField, isDescending)
SortBooks(arr, sortField, isDescending) ==
  SortBooksFrom(arr, 1, <<>>, sortField, isDescending)

\* The title filter of router.get('/').
FilterTitle(results, title) ==
  IF ~Falsy(title) /\ TypeOf(title) = "string"
  THEN SelectSeq(results, LAMBDA b :
         Includes(ToLowerCase(b.title), ToLowerCase(title.val)))
  ELSE results

\* Variant of the author filter: the name is matched as it is written, not
\* in lower case.
FilterAuthorCaseSensitive(results, as, author) ==
  IF ~Falsy(author) /\ TypeOf(author) = "string"
  THEN LET matchingAuthorIds ==
             { as[i].id : i \in { j \in 1..Len(as) :
                 Includes(as[j].name, author.val) } }
       IN SelectSeq(results, LAMBDA b : b.authorId \in matchingAuthorIds)
  ELSE results

\* The author filter: the ids of the Authors whose name matches, then the
\* Books of those ids.
FilterAuthor(results, as, author) ==
  IF ~Falsy(author) /\ TypeOf(author) = "string"
  THEN LET matchingAuthorIds ==
             { as[i].id : i \in { j \in 1..Len(as) :
                 Includes(ToLowerCase(as[j].name), ToLowerCase(author.val)) } }
       IN SelectSeq(results, LAMBDA b : b.authorId \in matchingAuthorIds)
  ELSE results

\* Variant of the year filter: a Book without a year passes.
FilterYearKeepsUndated(results, year) ==
  IF ~Falsy(year) /\ ToNumber(year) # NaN
  THEN SelectSeq(results, LAMBDA b : b.year = Undefined \/ b.year = ToNumber(year))
  ELSE results

\* The year filter: exact match with Number(year).
FilterYear(results, year) ==
  IF ~Falsy(year) /\ ToNumber(year) # NaN
  THEN SelectSeq(results, LAMBDA b : b.year = ToNumber(year))
  ELSE results

\* Variant of the sort stage: the direction is descending unless it is "asc".
SortStageDescendingByDefault(results, sort) ==
  IF ~Falsy(sort) /\ TypeOf(sort) = "string"
  THEN LET parts == Split(sort.val, "_")
           field == parts[1]
           isDescending == ~(Len(parts) >= 2 /\ parts[2] = <<"a", "s", "c">>)
       IN IF field \in VALID_SORT_FIELDS
          THEN SortBooks(results, field, isDescending)
          ELSE results
  ELSE results

\* The sort stage: "field_direction".
SortStage(results, sort) ==
  IF ~Falsy(sort) /\ TypeOf(sort) = "string"
  THEN LET parts == Split(sort.val, "_")
           field == parts[1]
           isDescending == Len(parts) >= 2 /\ parts[2] = Desc
       IN IF field \in VALID_SORT_FIELDS
          THEN SortBooks(results, field, isDescending)
          ELSE results
  ELSE results

\* Variant of the pagination stage: the page is counted from 0, so page 1 is
\* the second window.
PaginateFromZero(results, limit, page) ==
  LET lim == IF ~Falsy(limit) THEN MathMax1(ToNumber(limit)) ELSE Undefined
      pg == IF ~Falsy(page) THEN MathMax1(ToNumber(page)) ELSE Num(1)
      start == IF pg = NaN THEN NaN ELSE Num(pg.val * lim.val)
      end == IF start = NaN THEN NaN ELSE Num(start.val + lim.val)
  IN IF ~Falsy(lim) THEN Slice(results, start, end) ELSE results

\* Variant of the pagination stage: a page without a limit is cut with the
\* limit 1.
PaginatePageAlone(results, limit, page) ==
  LET lim == IF ~Falsy(limit) THEN MathMax1(ToNumber(limit))
             ELSE IF ~Falsy(page) THEN Num(1) ELSE Undefined
      pg == IF ~Falsy(page) THEN MathMax1(ToNumber(page)) ELSE Num(1)
      start == IF pg = NaN THEN NaN ELSE Num((pg.val - 1) * lim.val)
      end == IF start = NaN THEN NaN ELSE Num(start.val + lim.val)
  IN IF ~Falsy(lim) THEN Slice(results, start, end) ELSE results

\* The pagination stage: limit and page.
Paginate(results, limit, page) ==
  LET lim == IF ~Falsy(limit) THEN MathMax1(ToNumber(limit)) ELSE Undefined
      pg == IF ~Falsy(page) THEN MathMax1(ToNumber(page)) ELSE Num(1)
      start == IF pg = NaN THEN NaN ELSE Num((pg.val - 1) * lim.val)
      end == IF start = NaN THEN NaN ELSE Num(start.val + lim.val)
  IN IF ~Falsy(lim) THEN Slice(results, start, end) ELSE results

\* Variant of the body of router.get('/'): the page is cut from the books
\* array first, and the filters and the sort then work on that page.
ListBooksPaginateFirst(bs, as, query) ==
  LET page == Paginate(bs, query.limit, query.page)
      filtered == FilterYear(FilterAuthor(FilterTitle(page, query.title),
                                          as, query.author), query.year)
  IN SortStage(filtered, query.sort)

\* Variant of the body of router.get('/'): each filter reads the books array
\* instead of the survivors of the filter before it, so the last filter that
\* is present decides alone.
ListBooksLastFilterWins(bs, as, query) ==
  LET byTitle == FilterTitle(bs, query.title)
      byAuthor == IF ~Falsy(query.author) /\ TypeOf(query.author) = "string"
                  THEN FilterAuthor(bs, as, query.author) ELSE byTitle
      byYear == IF ~Falsy(query.year) /\ ToNumber(query.year) # NaN
                THEN FilterYear(bs, query.year) ELSE byAuthor
  IN Paginate(SortStage(byYear, query.sort), query.limit, query.page)

\* The body of router.get('/') on the books array bs and the authors array
\* as: a copy of bs is filtered, sorted and cut to the page.
ListBooks(bs, as, query) ==
  LET copy == bs
      filtered == FilterYear(FilterAuthor(FilterTitle(copy, query.title),
                                          as, query.author), query.year)
      sorted == SortStage(filtered, query.sort)
  IN Paginate(sorted, query.limit, query.page)

\* Variant of router.get('/'): results is the books array itself, not a copy,
\* so with no filter applied results.sort reorders the books array.
GetBooksHandlerSortInPlace(query) ==
  LET filters == ( ~Falsy(query.title) /\ TypeOf(query.title) = "string" )
                 \/ ( ~Falsy(query.author) /\ TypeOf(query.author) = "string" )
                 \/ ( ~Falsy(query.year) /\ ToNumber(query.year) # NaN )
  IN Result(200, ListBooks(books, authors, query), authors,
            IF filters THEN books ELSE SortStage(books, query.sort))

\* router.get('/') : the response is the list; the arrays are not written.
GetBooksHandler(query) ==
  Result(200, ListBooks(books, authors, query), authors, books)

\* The route handler of POST /books alone, as it runs once validateBookPayload
\* has called next().
PostBookRoute(body) ==
  LET title == Trim(body.title.val)
      authorId == body.authorId.val
      dup == \E i \in 1..Len(books) :
               /\ ToLowerCase(books[i].title) = ToLowerCase(title)
               /\ books[i].authorId = authorId
      book == [id |-> getNextBookId, title |-> title,
               year |-> body.year, authorId |-> authorId]
  IN
  IF dup THEN Fail(409, "Duplicate book for this author.")
  ELSE Result(201, book, authors, Append(books, book))

\* The route handler of PUT /books/:id alone.
PutBookRoute(id, body) ==
  LET index == FindIndex(books, id) IN
  IF index = 0 THEN Fail(404, "Book not found.")
  ELSE
    LET title == Trim(body.title.val)
        authorId == body.authorId.val
        dup == \E i \in 1..Len(books) :
                 /\ ToLowerCase(books[i].title) = ToLowerCase(title)
                 /\ books[i].authorId = authorId
                 /\ books[i].id # id
        book == [books[index] EXCEPT !.title = title, !.year = body.year,
                                     !.authorId = authorId]
    IN
    IF dup THEN Fail(409, "Another book with same title & author exists.")
    ELSE Result(200, book, authors, [books EXCEPT ![index] = book])

\* router.get('/:id')
GetBookHandler(id) ==
  LET index == FindIndex(books, id) IN
  IF index = 0 THEN Fail(404, "Book not found.")
  ELSE Result(200, books[index], authors, books)

\* Variant of PUT /books/:id: the title is written as the request carries
\* it, without trim().
PutBookHandlerUntrimmed(id, body) ==
  LET v == validateBookPayload(body)
      index == FindIndex(books, id)
  IN
  IF v # Pass THEN Fail(400, v)
  ELSE IF index = 0 THEN Fail(404, "Book not found.")
  ELSE
    LET title == Trim(body.title.val)
        authorId == body.authorId.val
        dup == \E i \in 1..Len(books) :
                 /\ ToLowerCase(books[i].title) = ToLowerCase(title)
                 /\ books[i].authorId = authorId
                 /\ books[i].id # id
        book == [books[index] EXCEPT !.title = body.title.val, !.year = body.year,
                                     !.authorId = authorId]
    IN
    IF dup THEN Fail(409, "Another book with same title & author exists.")
    ELSE Result(200, book, authors, [books EXCEPT ![index] = book])

\* Variant of PUT /books/:id: the duplicate check uses the authorId the Book
\* has, not the one of the request.
PutBookHandlerOldAuthor(id, body) ==
  LET v == validateBookPayload(body)
      index == FindIndex(books, id)
  IN
  IF v # Pass THEN Fail(400, v)
  ELSE IF index = 0 THEN Fail(404, "Book not found.")
  ELSE
    LET title == Trim(body.title.val)
        authorId == body.authorId.val
        dup == \E i \in 1..Len(books) :
                 /\ ToLowerCase(books[i].title) = ToLowerCase(title)
                 /\ books[i].authorId = books[index].authorId
                 /\ books[i].id # id
        book == [books[index] EXCEPT !.title = title, !.year = body.year,
                                     !.authorId = authorId]
    IN
    IF dup THEN Fail(409, "Another book with same title & author exists.")
    ELSE Result(200, book, authors, [books EXCEPT ![index] = book])

\* Variant of PUT /books/:id: the Book is looked up before the body is validated.
PutBookHandlerNotFoundFirst(id, body) ==
  LET v == validateBookPayload(body)
      index == FindIndex(books, id)
  IN
  IF index = 0 THEN Fail(404, "Book not found.")
  ELSE IF v # Pass THEN Fail(400, v)
  ELSE
    LET title == Trim(body.title.val)
        authorId == body.authorId.val
        dup == \E i \in 1..Len(books) :
                 /\ ToLowerCase(books[i].title) = ToLowerCase(title)
                 /\ books[i].authorId = authorId
                 /\ books[i].id # id
        book == [books[index] EXCEPT !.title = title, !.year = body.year,
                                     !.authorId = authorId]
    IN
    IF dup THEN Fail(409, "Another book with same title & author exists.")
    ELSE Result(200, book, authors, [books EXCEPT ![index] = book])

\* Variant of PUT /books/:id: the duplicate check does not leave out the Book
\* that is being updated.
PutBookHandlerNoSelfExclusion(id, body) ==
  LET v == validateBookPayload(body)
      index == FindIndex(books, id)
  IN
  IF v # Pass THEN Fail(400, v)
  ELSE IF index = 0 THEN Fail(404, "Book not found.")
  ELSE
    LET title == Trim(body.title.val)
        authorId == body.authorId.val
        dup == \E i \in 1..Len(books) :
                 /\ ToLowerCase(books[i].title) = ToLowerCase(title)
                 /\ books[i].authorId = authorId
        book == [books[index] EXCEPT !.title = title, !.year = body.year,
                                     !.authorId = authorId]
    IN
    IF dup THEN Fail(409, "Another book with same title & author exists.")
    ELSE Result(200, book, authors, [books EXCEPT ![index] = book])

\* router.put('/:id', validateBookPayload, ...)
PutBookHandler(id, body) ==
  LET v == validateBookPayload(body)
      index == FindIndex(books, id)
  IN
  IF v # Pass THEN Fail(400, v)
  ELSE IF index = 0 THEN Fail(404, "Book not found.")
  ELSE
    LET title == Trim(body.title.val)
        authorId == body.authorId.val
        dup == \E i \in 1..Len(books) :
                 /\ ToLowerCase(books[i].title) = ToLowerCase(title)
                 /\ books[i].authorId = authorId
                 /\ books[i].id # id
        book == [books[index] EXCEPT !.title = title, !.year = body.year,
                                     !.authorId = authorId]
    IN
    IF dup THEN Fail(409, "Another book with same title & author exists.")
    ELSE Result(200, book, authors, [books EXCEPT ![index] = book])

\* Variant of DELETE /books/:id: books.splice(idx) without a count, which
\* removes every Book from idx to the end.
DeleteBookHandlerSpliceToEnd(id) ==
  LET idx == FindIndex(books, id) IN
  IF idx = 0 THEN Fail(404, "Book not found.")
  ELSE Result(200, [deleted |-> books[idx]], authors, SubSeq(books, 1, idx - 1))

\* router.delete('/:id')
DeleteBookHandler(id) ==
  LET idx == FindIndex(books, id) IN
  IF idx = 0 THEN Fail(404, "Book not found.")
  ELSE Result(200, [deleted |-> books[idx]], authors, Splice(books, idx))

\* ----------------------------------------------------------------- actions
\* The tables after the handler has run.
Apply(r) ==
  /\ authors' = r.authors
  /\ books' = r.books
  /\ UNCHANGED inflight

NoCreate == UNCHANGED <<issuedAuthorIds, issuedBookIds>>
NoHistory == UNCHANGED <<issuedAuthorIds, issuedBookIds, gone>>
NothingGone == [authors |-> {}, books |-> {}]

\* POST /authors
PostAuthor(body) ==
  LET r == PostAuthorHandler(body) IN
  /\ Apply(r)
  /\ IF r.status = 201
     THEN /\ Len(authors) < MaxAuthors
          /\ r.body.id <= MaxId
          /\ issuedAuthorIds' = issuedAuthorIds \cup {r.body.id}
          /\ gone' = NothingGone
          /\ UNCHANGED issuedBookIds
     ELSE NoHistory

\* GET /authors
GetAuthors == Apply(GetAuthorsHandler) /\ NoHistory

\* GET /authors/:id
GetAuthor(id) == Apply(GetAuthorHandler(id)) /\ NoHistory

\* PUT /authors/:id
PutAuthor(id, body) == Apply(PutAuthorHandler(id, body)) /\ NoHistory

\* The ids of the Books that reference author id.
BooksOf(id) == { books[i].id : i \in { j \in 1..Len(books) : books[j].authorId = id } }

\* DELETE /authors/:id
DeleteAuthor(id) ==
  LET r == DeleteAuthorHandler(id) IN
  /\ Apply(r)
  /\ NoCreate
  /\ gone' = IF r.status = 200
             THEN [authors |-> gone.authors \cup {id},
                   books |-> gone.books \cup BooksOf(id)]
             ELSE gone

\* GET /authors/:id/books
GetAuthorBooks(id) == Apply(GetAuthorBooksHandler(id)) /\ NoHistory

\* POST /books
PostBook(body) ==
  LET r == PostBookHandler(body) IN
  /\ Apply(r)
  /\ IF r.status = 201
     THEN /\ Len(books) < MaxBooks
          /\ r.body.id <= MaxId
          /\ issuedBookIds' = issuedBookIds \cup {r.body.id}
          /\ gone' = NothingGone
          /\ UNCHANGED issuedAuthorIds
     ELSE NoHistory

\* GET /books
GetBooks(query) == Apply(GetBooksHandler(query)) /\ NoHistory

\* GET /books/:id
GetBook(id) == Apply(GetBookHandler(id)) /\ NoHistory

\* PUT /books/:id
PutBook(id, body) == Apply(PutBookHandler(id, body)) /\ NoHistory

\* DELETE /books/:id
DeleteBook(id) == Apply(DeleteBookHandler(id)) /\ NoHistory

\* ------------------------------------------------------------ specification
Next ==
  \/ \E body \in SentAuthorBodies : PostAuthor(body)
  \/ GetAuthors
  \/ \E id \in IdInputs : GetAuthor(id)
  \/ \E id \in IdInputs, body \in SentAuthorBodies : PutAuthor(id, body)
  \/ \E id \in IdInputs : DeleteAuthor(id)
  \/ \E id \in IdInputs : GetAuthorBooks(id)
  \/ \E body \in SentBookBodies : PostBook(body)
  \/ \E query \in SentQueries : GetBooks(query)
  \/ \E id \in IdInputs : GetBook(id)
  \/ \E id \in IdInputs, body \in SentBookBodies : PutBook(id, body)
  \/ \E id \in IdInputs : DeleteBook(id)

Spec == Init /\ [][Next]_vars

\* ------------------------------------------- a request as its two callbacks
\* A book request is two function calls: validateBookPayload, which ends in
\* next(), and the route handler that next() calls.  StepSpec takes them as
\* two steps and lets the event loop start a request only when none is
\* between the two.
PostRoute == "POST /books"
PutRoute == "PUT /books/:id"
\* The book bodies StepSpec sends.
StepBookBodies ==
  [title : { Str(<<"a">>), Str(<<"b", " ">>) }, year : { Undefined },
   authorId : { Num(i) : i \in IdInputs }]

\* Variant of Idle: next() is put off to a later turn of the event loop (as
\* after an await), so other requests run before the route handler.
IdleAlways == TRUE

\* The event loop takes the next request only when the call stack is empty.
\* validateBookPayload calls next() itself and next() calls the route handler
\* in the same call stack, so no request starts while one is in flight.
Idle == inflight = None

\* validateBookPayload for POST /books or PUT /books/:id
ValidateBook(route, id, body) ==
  LET v == validateBookPayload(body) IN
  /\ Idle
  /\ (v = Pass /\ route = PostRoute) =>
       (Len(books) < MaxBooks /\ getNextBookId <= MaxId)
  /\ inflight' = IF v = Pass
                 THEN [route |-> route, id |-> id, body |-> body,
                       authors |-> authors, books |-> books]
                 ELSE inflight
  /\ UNCHANGED <<authors, books, issuedAuthorIds, issuedBookIds, gone>>

\* The route handler of the request in flight.
HandleBook ==
  /\ inflight # None
  /\ LET r == IF inflight.route = PostRoute THEN PostBookRoute(inflight.body)
              ELSE PutBookRoute(inflight.id, inflight.body)
     IN
     /\ authors' = r.authors
     /\ books' = r.books
     /\ inflight' = None
     /\ IF r.status = 201
        THEN /\ issuedBookIds' = issuedBookIds \cup {r.body.id}
             /\ gone' = NothingGone
             /\ UNCHANGED issuedAuthorIds
        ELSE NoHistory

StepNext ==
  \/ \E body \in StepBookBodies : ValidateBook(PostRoute, 0, body)
  \/ \E id \in IdInputs, body \in StepBookBodies : ValidateBook(PutRoute, id, body)
  \/ HandleBook
  \/ Idle /\ \E body \in SentAuthorBodies : PostAuthor(body)
  \/ Idle /\ \E id \in IdInputs, body \in SentAuthorBodies : PutAuthor(id, body)
  \/ Idle /\ \E id \in IdInputs : DeleteAuthor(id)
  \/ Idle /\ \E id \in IdInputs : DeleteBook(id)
  \/ Idle /\ \E id \in IdInputs : GetAuthorBooks(id)
  \/ Idle /\ \E id \in IdInputs : GetBook(id)

StepSpec == Init /\ [][StepNext]_vars

\* ------------------------------------------------ the list query on its own
\* GET /books is a function of the two tables and the query string.  It is
\* examined on tables larger than the ones Spec builds: two Authors and up to
\* MaxListed Books, all of them tables that POST requests build.
ListedAuthorTables ==
  { << [id |-> 1, name |-> p[1], bio |-> Undefined],
       [id |-> 2, name |-> p[2], bio |-> Undefined] >> :
    p \in { << <<"a">>, <<"A", "b">> >>, << <<"A", "b">>, <<"B">> >>,
            << <<"B">>, <<"a">> >> } }

\* What the Books carry: titles that differ by case, the same title under two
\* Authors, equal years and absent years.
Catalogue ==
  << [title |-> <<"a">>, year |-> Num(2), authorId |-> 1],
     [title |-> <<"A", "b">>, year |-> Num(1), authorId |-> 1],
     [title |-> <<"B">>, year |-> Undefined, authorId |-> 1],
     [title |-> <<"a">>, year |-> Num(1), authorId |-> 2],
     [title |-> <<"B">>, year |-> Undefined, authorId |-> 2] >>

\* The Books picked from the catalogue in the order pick, with the ids that
\* POST /books gives them.
ListedBooks(pick) ==
  [i \in 1..Len(pick) |->
     [id |-> i, title |-> Catalogue[pick[i]].title,
      year |-> Catalogue[pick[i]].year, authorId |-> Catalogue[pick[i]].authorId]]
Picks ==
  UNION { { pick \in [1..n -> 1..Len(Catalogue)] :
              \A i, j \in 1..n : i # j => pick[i] # pick[j] } : n \in 0..MaxListed }
ListedBookTables == { ListedBooks(pick) : pick \in Picks }

QueryInit ==
  /\ authors \in ListedAuthorTables
  /\ books \in ListedBookTables
  /\ issuedAuthorIds = AuthorIds
  /\ issuedBookIds = BookIds
  /\ gone = NothingGone
  /\ inflight = None

QueryNext == \E query \in SentQueries : GetBooks(query)

QuerySpec == QueryInit /\ [][QueryNext]_vars

\* ------------------------------------------------------------------ claims
\* A request field that passes the name and title checks: a string that is
\* not empty once trimmed.
IsValidString(v) == TypeOf(v) = "string" /\ Trim(v.val) # <<>>

\* C1: referential integrity.  In every reachable state the authorId of every
\* Book of the books table is the id of an Author of the authors table.
C1_ReferentialIntegrity ==
  \A i \in 1..Len(books) : \E j \in 1..Len(authors) : authors[j].id = books[i].authorId

\* C1 witness: an Author has been deleted and Books of the other Author are
\* still in the table.
C1_Witness ==
  /\ gone.authors # {}
  /\ books # <<>>
  /\ authors # <<>>

\* C2: a successful DELETE /authors/:id answers with the Author of that id and
\* leaves exactly the Authors with another id and the Books with another
\* authorId, each unchanged and in the order they had.
C2_DeleteAuthorFrame ==
  \A id \in IdInputs :
    LET r == DeleteAuthorHandler(id) IN
    r.status = 200 =>
      /\ id \in AuthorIds
      /\ r.body.deleted.id = id
      /\ r.authors = SelectSeq(authors, LAMBDA a : a.id # id)
      /\ r.books = SelectSeq(books, LAMBDA b : b.authorId # id)

\* C2 witness: some DELETE /authors/:id succeeds, removes a Book and leaves a
\* Book of another Author.
C2_Witness ==
  \E id \in IdInputs :
    LET r == DeleteAuthorHandler(id) IN
    /\ r.status = 200
    /\ r.authors # <<>>
    /\ r.books # <<>>
    /\ Len(r.books) < Len(books)

\* C3: from a successful DELETE /authors/:id until the next successful create,
\* GET /authors/:id/books answers 404 for the deleted id and GET /books/:bid
\* answers 404 for every Book that referenced the deleted Author.  (A create
\* that fails changes nothing, so this covers the time up to any create request.)
C3_DeletedStayNotFound ==
  /\ \A a \in gone.authors : GetAuthorBooksHandler(a).status = 404
  /\ \A b \in gone.books : GetBookHandler(b).status = 404

\* C3 witness: an Author that owned every Book of a full books table has been
\* deleted and no create has followed.
C3_Witness ==
  /\ gone.authors # {}
  /\ Cardinality(gone.books) = MaxBooks

\* C4: in every reachable state no two Books have the same authorId and titles
\* that are equal after lowercasing.
C4_BookPairsUnique ==
  \A i, j \in 1..Len(books) :
    i # j => ~ /\ books[i].authorId = books[j].authorId
               /\ ToLowerCase(books[i].title) = ToLowerCase(books[j].title)

\* C4 witness: two Books whose titles differ only by case, of different Authors.
C4_Witness ==
  \E i, j \in 1..Len(books) :
    /\ books[i].title # books[j].title
    /\ ToLowerCase(books[i].title) = ToLowerCase(books[j].title)
    /\ books[i].authorId # books[j].authorId

\* C5: in every reachable state no two Authors have names that are equal when
\* compared case-insensitively.
C5_AuthorNamesUnique ==
  \A i, j \in 1..Len(authors) :
    i # j => ToLowerCase(authors[i].name) # ToLowerCase(authors[j].name)

\* C5 witness: two Authors, one of them stored with an upper-case name.
C5_Witness ==
  /\ Len(authors) = 2
  /\ \E i \in 1..Len(authors) : authors[i].name # ToLowerCase(authors[i].name)

\* C6: POST /authors with a name that, trimmed and lowercased, equals the
\* lowercased name of an Author of the table answers 409 and leaves the
\* authors table (and the books table) as it was.
C6_DuplicateNameRejected ==
  \A body \in AuthorBodies :
    LET r == PostAuthorHandler(body) IN
    ( /\ TypeOf(body.name) = "string"
      /\ \E i \in 1..Len(authors) :
           ToLowerCase(Trim(body.name.val)) = ToLowerCase(authors[i].name) )
    => /\ r.status = 409
       /\ r.authors = authors
       /\ r.books = books

\* C6 witness: a POST /authors whose name differs from a stored name by case
\* and by surrounding white space is answered 409.
C6_Witness ==
  \E body \in AuthorBodies : \E i \in 1..Len(authors) :
    /\ TypeOf(body.name) = "string"
    /\ Trim(body.name.val) # body.name.val
    /\ Trim(body.name.val) # authors[i].name
    /\ ToLowerCase(Trim(body.name.val)) = ToLowerCase(authors[i].name)
    /\ PostAuthorHandler(body).status = 409

\* C7: in every reachable state no two Authors share an id and no two Books
\* share an id.
C7_IdsUnique ==
  /\ \A i, j \in 1..Len(authors) : i # j => authors[i].id # authors[j].id
  /\ \A i, j \in 1..Len(books) : i # j => books[i].id # books[j].id

\* C7 witness: after creates and deletes, both tables hold records and
\* neither holds the id 1.
C7_Witness ==
  /\ authors # <<>> /\ 1 \notin AuthorIds
  /\ books # <<>> /\ 1 \notin BookIds

\* C8 as claimed: an id is never reused.  The id a create gives differs from
\* every id an earlier create of that table has given.
C8_NeverReused ==
  [][ /\ Len(authors') > Len(authors)
        => authors'[Len(authors')].id \notin issuedAuthorIds
      /\ Len(books') > Len(books)
        => books'[Len(books')].id \notin issuedBookIds ]_vars

\* C8 as amended: the id a create gives is not the id of any record then in
\* the table; it is an id given before only when that record and every record
\* that was given a larger id have been deleted.
C8_ReusedOnlyAboveTable ==
  /\ \A body \in AuthorBodies :
       LET r == PostAuthorHandler(body) IN
       r.status = 201 =>
         /\ r.body.id \notin AuthorIds
         /\ r.body.id \in issuedAuthorIds =>
              \A k \in issuedAuthorIds : k >= r.body.id => k \notin AuthorIds
  /\ \A body \in BookBodies :
       LET r == PostBookHandler(body) IN
       r.status = 201 =>
         /\ r.body.id \notin BookIds
         /\ r.body.id \in issuedBookIds =>
              \A k \in issuedBookIds : k >= r.body.id => k \notin BookIds

\* C8 witness: a POST /authors and a POST /books that succeed with an id that
\* was given before, while records with smaller ids are in the tables.
C8_Witness ==
  /\ authors # <<>>
  /\ \E body \in AuthorBodies :
       LET r == PostAuthorHandler(body) IN
       r.status = 201 /\ r.body.id \in issuedAuthorIds
  /\ books # <<>>
  /\ \E body \in BookBodies :
       LET r == PostBookHandler(body) IN
       r.status = 201 /\ r.body.id \in issuedBookIds

\* n is 1 for an empty set of ids, else the largest id plus 1.
IsMaxPlusOne(n, ids) ==
  IF ids = {} THEN n = 1
  ELSE /\ n - 1 \in ids
       /\ \A k \in ids : k <= n - 1

\* C9: every successful create appends a record whose id is the largest id of
\* the table plus 1, or 1 on an empty table, for Authors and for Books.
C9_CreateAssignsMaxPlusOne ==
  /\ \A body \in AuthorBodies :
       LET r == PostAuthorHandler(body) IN
       r.status = 201 =>
         /\ IsMaxPlusOne(r.body.id, AuthorIds)
         /\ r.authors = Append(authors, r.body)
  /\ \A body \in BookBodies :
       LET r == PostBookHandler(body) IN
       r.status = 201 =>
         /\ IsMaxPlusOne(r.body.id, BookIds)
         /\ r.books = Append(books, r.body)

\* C9 witness: exactly one Author and one Book have ever been created, and
\* both hold the id 1.
C9_Witness ==
  /\ Len(authors) = 1 /\ authors[1].id = 1 /\ issuedAuthorIds = {1}
  /\ Len(books) = 1 /\ books[1].id = 1 /\ issuedBookIds = {1}

\* C10: POST /books and PUT /books/:id with a valid title and a numeric
\* authorId that is the id of no Author answer 400 and leave the tables as
\* they were, whatever :id is and whatever the title and the year are.
C10_MissingAuthorIs400 ==
  \A body \in BookBodies :
    ( /\ IsValidString(body.title)
      /\ TypeOf(body.authorId) = "number"
      /\ body.authorId.val \notin AuthorIds )
    => /\ PostBookHandler(body).status = 400
       /\ PostBookHandler(body).books = books
       /\ PostBookHandler(body).authors = authors
       /\ \A id \in IdInputs :
            /\ PutBookHandler(id, body).status = 400
            /\ PutBookHandler(id, body).books = books
            /\ PutBookHandler(id, body).authors = authors

\* C10 witness: a PUT /books/:id with an authorId of no Author is answered
\* 400 once for an :id of no Book and once for a title another Book carries.
C10_Witness ==
  \E body \in BookBodies : \E id, other \in IdInputs :
    /\ IsValidString(body.title)
    /\ TypeOf(body.authorId) = "number"
    /\ body.authorId.val \notin AuthorIds
    /\ id \notin BookIds
    /\ PutBookHandler(id, body).status = 400
    /\ other \in BookIds
    /\ \E i \in 1..Len(books) :
         /\ books[i].id # other
         /\ ToLowerCase(books[i].title) = ToLowerCase(Trim(body.title.val))
    /\ PutBookHandler(other, body).status = 400

\* The statuses of a request that is refused.
ErrorStatuses == { 400, 404, 409 }
\* Response r of a handler leaves both tables as they are.
Untouched(r) == r.authors = authors /\ r.books = books

\* C11: no partial writes.  Every request to an author or book endpoint that
\* is answered 400, 404 or 409 leaves the authors table and the books table
\* exactly as they were before the request.
C11_NoPartialWrites ==
  /\ \A body \in AuthorBodies :
       /\ PostAuthorHandler(body).status \in ErrorStatuses
            => Untouched(PostAuthorHandler(body))
       /\ \A id \in IdInputs :
            PutAuthorHandler(id, body).status \in ErrorStatuses
              => Untouched(PutAuthorHandler(id, body))
  /\ \A body \in BookBodies :
       /\ PostBookHandler(body).status \in ErrorStatuses
            => Untouched(PostBookHandler(body))
       /\ \A id \in IdInputs :
            PutBookHandler(id, body).status \in ErrorStatuses
              => Untouched(PutBookHandler(id, body))
  /\ \A id \in IdInputs :
       /\ GetAuthorHandler(id).status \in ErrorStatuses => Untouched(GetAuthorHandler(id))
       /\ DeleteAuthorHandler(id).status \in ErrorStatuses
            => Untouched(DeleteAuthorHandler(id))
       /\ GetAuthorBooksHandler(id).status \in ErrorStatuses
            => Untouched(GetAuthorBooksHandler(id))
       /\ GetBookHandler(id).status \in ErrorStatuses => Untouched(GetBookHandler(id))
       /\ DeleteBookHandler(id).status \in ErrorStatuses
            => Untouched(DeleteBookHandler(id))
  /\ GetAuthorsHandler.status \in ErrorStatuses => Untouched(GetAuthorsHandler)
  /\ \A query \in SentQueries :
       GetBooksHandler(query).status \in ErrorStatuses => Untouched(GetBooksHandler(query))

\* C11 witness: with Books in the table, a PUT /authors/:id and a PUT
\* /books/:id are answered 409 for a name and a title that differ from the
\* stored ones, and DELETE /authors/:id is answered 404.
C11_Witness ==
  /\ books # <<>>
  /\ \E id \in IdInputs : \E body \in AuthorBodies : \E i \in 1..Len(authors) :
       /\ authors[i].id = id
       /\ PutAuthorHandler(id, body).status = 409
       /\ Trim(body.name.val) # authors[i].name
  /\ \E id \in IdInputs : \E body \in BookBodies :
       PutBookHandler(id, body).status = 409
  /\ \E id \in IdInputs : DeleteAuthorHandler(id).status = 404

\* body carries the authorId of Book b and a title equal to the title of b up
\* to case and surrounding white space.
CarriesOwnPair(body, b) ==
  /\ body.authorId = Num(b.authorId)
  /\ TypeOf(body.title) = "string"
  /\ ToLowerCase(Trim(body.title.val)) = ToLowerCase(b.title)

\* C12 as claimed: PUT /books/:id on an existing Book with its own authorId
\* and its own title up to case and white space is answered 200, whatever
\* else the body carries.
C12_OwnPairAlways200 ==
  \A i \in 1..Len(books) : \A body \in BookBodies :
    CarriesOwnPair(body, books[i]) => PutBookHandler(books[i].id, body).status = 200

\* C12 as amended: such a request is never answered 409; it is answered 200
\* when the year of the body is absent or a number, and 400 with the year
\* message, the tables untouched, when the year is anything else.
C12_OwnPairNever409 ==
  \A i \in 1..Len(books) : \A body \in BookBodies :
    LET r == PutBookHandler(books[i].id, body) IN
    CarriesOwnPair(body, books[i]) =>
      /\ r.status # 409
      /\ (body.year = Undefined \/ TypeOf(body.year) = "number")
           => /\ r.status = 200
              /\ r.body = [id |-> books[i].id, title |-> Trim(body.title.val),
                           year |-> body.year, authorId |-> books[i].authorId]
      /\ ~(body.year = Undefined \/ TypeOf(body.year) = "number")
           => /\ r.status = 400
              /\ r.body = [error |-> ErrBookYear]
              /\ Untouched(r)

\* C12 witness: a Book is updated to its own pair with a title that differs
\* from the stored one by case and white space, while another Author has a
\* Book of the same title; the answer is 200 with a numeric year and 400 with
\* a year that is a string.
C12_Witness ==
  \E i, j \in 1..Len(books) : \E body, bad \in BookBodies :
    /\ i # j
    /\ ToLowerCase(books[j].title) = ToLowerCase(books[i].title)
    /\ CarriesOwnPair(body, books[i])
    /\ body.title.val # books[i].title
    /\ Trim(body.title.val) # books[i].title
    /\ TypeOf(body.year) = "number"
    /\ PutBookHandler(books[i].id, body).status = 200
    /\ CarriesOwnPair(bad, books[i])
    /\ TypeOf(bad.year) = "string"
    /\ PutBookHandler(books[i].id, bad).status = 400

\* C13: GET /books has no side effects.  For every combination of title,
\* author, year, sort, limit and page the answer is 200, the authors table
\* and the books table (the stored order of the Books included) are as they
\* were, and the same query asked again returns the same sequence.
C13_ListHasNoSideEffects ==
  \A query \in AllQueries \cup SentQueries :
    LET r == GetBooksHandler(query) IN
    /\ r.status = 200
    /\ Untouched(r)
    /\ ListBooks(r.books, r.authors, query) = r.body

\* C13 witness: a query with a sort and no filter returns all the Books in
\* an order that is not the stored one.
C13_Witness ==
  \E query \in AllQueries :
    LET r == GetBooksHandler(query) IN
    /\ Len(books) = MaxListed
    /\ Len(r.body) = Len(books)
    /\ r.body # books

\* A filter of the query is present: the parameter is a non-empty string,
\* and for the year one that parses as a number.
HasTitleFilter(query) == ~Falsy(query.title) /\ TypeOf(query.title) = "string"
HasAuthorFilter(query) == ~Falsy(query.author) /\ TypeOf(query.author) = "string"
HasYearFilter(query) == ~Falsy(query.year) /\ ToNumber(query.year) # NaN

\* Book b passes the title, the author and the year filter of the query.
PassesTitle(b, query) ==
  HasTitleFilter(query) =>
    Includes(ToLowerCase(b.title), ToLowerCase(query.title.val))
PassesAuthor(b, query) ==
  HasAuthorFilter(query) =>
    \E i \in 1..Len(authors) :
      /\ authors[i].id = b.authorId
      /\ Includes(ToLowerCase(authors[i].name), ToLowerCase(query.author.val))
PassesYear(b, query) ==
  HasYearFilter(query) => b.year = ToNumber(query.year)
PassesFilters(b, query) ==
  PassesTitle(b, query) /\ PassesAuthor(b, query) /\ PassesYear(b, query)

\* C14: GET /books filters, then sorts, then paginates.  The result is the
\* page window of the sorted sequence of the Books that pass every present
\* filter, so every Book of the result passes the filters and a Book that a
\* filter removed takes no place in the window.
C14_FilterSortPaginate ==
  \A query \in AllQueries :
    LET r == GetBooksHandler(query)
        survivors == SelectSeq(books, LAMBDA b : PassesFilters(b, query))
    IN
    /\ r.body = Paginate(SortStage(survivors, query.sort), query.limit, query.page)
    /\ \A i \in 1..Len(r.body) : PassesFilters(r.body[i], query)

\* C14 witness: a query with a filter, a sort and a limit whose first result
\* is stored behind the first limit Books of the table, while a Book stored
\* before it fails the filter.
C14_Witness ==
  \E query \in AllQueries :
    LET r == GetBooksHandler(query) IN
    /\ Len(books) = MaxListed
    /\ HasTitleFilter(query)
    /\ query.limit = Str(<<"2">>)
    /\ query.sort = Str(YearField \o <<"_">> \o <<"a", "s", "c">>)
    /\ Len(r.body) = 2
    /\ books[3] = r.body[1]
    /\ ~PassesFilters(books[1], query)

\* The Books a sequence holds.
Range(seq) == { seq[i] : i \in 1..Len(seq) }

\* C15: filters compose by intersection.  Without sort and pagination, the
\* Books returned under a title and a year filter are exactly the Books
\* returned under the title filter alone that are also returned under the
\* year filter alone, in the same order; and likewise with the author filter
\* added.
C15_FiltersIntersect ==
  \A t \in TitleParams : \A y \in YearParams :
    LET byTitle == GetBooksHandler([NoQuery EXCEPT !.title = t]).body
        byYear == GetBooksHandler([NoQuery EXCEPT !.year = y]).body
        byBoth == GetBooksHandler([NoQuery EXCEPT !.title = t, !.year = y]).body
    IN
    /\ byBoth = SelectSeq(byTitle, LAMBDA b : b \in Range(byYear))
    /\ Range(byBoth) = Range(byTitle) \cap Range(byYear)
    /\ \A a \in AuthorParams :
         LET byAuthor == GetBooksHandler([NoQuery EXCEPT !.author = a]).body
             byAll == GetBooksHandler(
                        [NoQuery EXCEPT !.title = t, !.year = y, !.author = a]).body
         IN
         /\ byAll = SelectSeq(byBoth, LAMBDA b : b \in Range(byAuthor))
         /\ Range(byAll) = Range(byTitle) \cap Range(byYear) \cap Range(byAuthor)

\* C15 witness: a title filter and a year filter that each keep several
\* Books, and together keep fewer than either, but not none; adding an author
\* filter that keeps some Books leaves none.
C15_Witness ==
  \E t \in TitleParams : \E y \in YearParams : \E a \in AuthorParams :
    LET byTitle == GetBooksHandler([NoQuery EXCEPT !.title = t]).body
        byYear == GetBooksHandler([NoQuery EXCEPT !.year = y]).body
        byBoth == GetBooksHandler([NoQuery EXCEPT !.title = t, !.year = y]).body
        byAuthor == GetBooksHandler([NoQuery EXCEPT !.author = a]).body
        byAll == GetBooksHandler(
                   [NoQuery EXCEPT !.title = t, !.year = y, !.author = a]).body
    IN
    /\ byBoth # <<>>
    /\ Len(byBoth) < Len(byTitle)
    /\ Len(byBoth) < Len(byYear)
    /\ byAuthor # <<>>
    /\ byAll = <<>>

\* The sort parameters "year_asc" and "year_desc".
YearAsc == Str(YearField \o <<"_">> \o <<"a", "s", "c">>)
YearDesc == Str(YearField \o <<"_">> \o Desc)

\* The ids of the Books of a sequence, in its order.
IdsOf(seq) == [i \in 1..Len(seq) |-> seq[i].id]

\* C16: sorted by year, the Books that have a year come first, ascending
\* for year_asc and descending for year_desc, and every Book without a year
\* comes after every Book with a year, in both directions; the sort neither
\* drops nor adds a Book.
C16_YearSortUndefinedLast ==
  \A sort \in { YearAsc, YearDesc } : \A t \in TitleParams :
    LET out == GetBooksHandler([NoQuery EXCEPT !.sort = sort, !.title = t]).body
        unsorted == GetBooksHandler([NoQuery EXCEPT !.title = t]).body
    IN
    /\ Len(out) = Len(unsorted)
    /\ Range(out) = Range(unsorted)
    /\ \A i, j \in 1..Len(out) :
         i < j =>
           /\ out[i].year = Undefined => out[j].year = Undefined
           /\ (out[i].year # Undefined /\ out[j].year # Undefined) =>
                IF sort = YearAsc THEN out[i].year.val <= out[j].year.val
                ELSE out[i].year.val >= out[j].year.val

\* C16 witness: the Books stored with the years 2, none, 1 are returned in
\* the order 3, 1, 2 for year_asc and 1, 3, 2 for year_desc.
C16_Witness ==
  /\ Len(books) = 3
  /\ books[1].year = Num(2) /\ books[2].year = Undefined /\ books[3].year = Num(1)
  /\ IdsOf(GetBooksHandler([NoQuery EXCEPT !.sort = YearAsc]).body) = <<3, 1, 2>>
  /\ IdsOf(GetBooksHandler([NoQuery EXCEPT !.sort = YearDesc]).body) = <<1, 3, 2>>

\* The sort parameters with a field of VALID_SORT_FIELDS.
ValidSorts ==
  { x \in SortParams :
      TypeOf(x) = "string" /\ Split(x.val, "_")[1] \in VALID_SORT_FIELDS }
\* The place of Book b in a sequence that holds it.
PlaceOf(seq, b) == CHOOSE k \in 1..Len(seq) : seq[k] = b

\* C17: the sort is stable.  Two Books with equal values of the sort field,
\* or both without a year under a sort by year, come out in the order they
\* have in the filtered, insertion-ordered sequence, ascending and descending.
C17_SortIsStable ==
  \A sort \in ValidSorts : \A t \in { Undefined, Str(<<"a">>) } :
    LET field == Split(sort.val, "_")[1]
        out == GetBooksHandler([NoQuery EXCEPT !.sort = sort, !.title = t]).body
        unsorted == GetBooksHandler([NoQuery EXCEPT !.title = t]).body
    IN
    /\ Range(out) = Range(unsorted)
    /\ \A i, j \in 1..Len(unsorted) :
         ( i < j /\ FieldValue(unsorted[i], field) = FieldValue(unsorted[j], field) )
           => PlaceOf(out, unsorted[i]) < PlaceOf(out, unsorted[j])

\* C17 witness: of three Books the first and the third have the year 1 and
\* the second the year 2; year_asc returns 1, 3, 2 and year_desc 2, 1, 3.
C17_Witness ==
  /\ Len(books) = 3
  /\ books[1].year = Num(1) /\ books[2].year = Num(2) /\ books[3].year = Num(1)
  /\ IdsOf(GetBooksHandler([NoQuery EXCEPT !.sort = YearAsc]).body) = <<1, 3, 2>>
  /\ IdsOf(GetBooksHandler([NoQuery EXCEPT !.sort = YearDesc]).body) = <<2, 1, 3>>

\* The decimal numeral of a number from 0 to 9, as a query string carries it.
Numeral(n) == Str(<< <<"0", "1", "2", "3", "4", "5", "6", "7", "8", "9">>[n + 1] >>)
\* The limits and pages of C18: up to one more than the longest table.
WindowNumbers == 1..(MaxListed + 1)

\* C18: with an integer limit >= 1 and an integer page >= 1, GET /books
\* answers 200 with the elements of the filtered and sorted sequence at the
\* zero-based indices (page-1)*limit to (page-1)*limit + limit - 1 that
\* exist; when (page-1)*limit is at or past the end, with the empty sequence.
C18_PageWindow ==
  \A limit \in WindowNumbers : \A page \in WindowNumbers :
    \A sort \in { Undefined, YearDesc } : \A t \in { Undefined, Str(<<"a">>) } :
      LET whole == GetBooksHandler([NoQuery EXCEPT !.sort = sort, !.title = t]).body
          r == GetBooksHandler([NoQuery EXCEPT !.sort = sort, !.title = t,
                                 !.limit = Numeral(limit), !.page = Numeral(page)])
          start == (page - 1) * limit
          zeroBased == { k \in start..(start + limit - 1) : k < Len(whole) }
      IN
      /\ r.status = 200
      /\ Len(r.body) = Cardinality(zeroBased)
      /\ \A k \in zeroBased : r.body[k - start + 1] = whole[k + 1]
      /\ start >= Len(whole) => r.body = <<>>

\* C18 witness: over three Books, limit 2 and page 2 return the third Book
\* alone, limit 1 and page 2 the second, and limit 2 and page 3 nothing.
C18_Witness ==
  /\ Len(books) = 3
  /\ GetBooksHandler([NoQuery EXCEPT !.limit = Numeral(2), !.page = Numeral(2)]).body
       = << books[3] >>
  /\ GetBooksHandler([NoQuery EXCEPT !.limit = Numeral(1), !.page = Numeral(2)]).body
       = << books[2] >>
  /\ GetBooksHandler([NoQuery EXCEPT !.limit = Numeral(2), !.page = Numeral(3)]).body
       = <<>>

\* What the book payload rules refuse, each taken on its own.
BadTitle(body) == ~IsValidString(body.title)
BadAuthorId(body) == TypeOf(body.authorId) # "number"
MissingAuthor(body) == ~BadAuthorId(body) /\ body.authorId.val \notin AuthorIds
BadYear(body) == body.year # Undefined /\ TypeOf(body.year) # "number"

\* C19: the book payload is checked in the order title, authorId present and
\* numeric, authorId of an existing Author, year, and the first failure alone
\* is reported: POST /books and PUT /books/:id answer 400 with the message
\* of the first rule that fails, whatever later rules would say.
C19_FirstFailureWins ==
  \A body \in BookBodies :
    LET first == IF BadTitle(body) THEN ErrBookTitle
                 ELSE IF BadAuthorId(body) THEN ErrBookAuthorId
                 ELSE IF MissingAuthor(body) THEN ErrBookAuthorMissing
                 ELSE IF BadYear(body) THEN ErrBookYear
                 ELSE Pass
    IN
    /\ validateBookPayload(body) = first
    /\ first # Pass =>
         /\ PostBookHandler(body) = Fail(400, first)
         /\ \A id \in IdInputs : PutBookHandler(id, body) = Fail(400, first)
    /\ first = Pass =>
         /\ PostBookHandler(body).status # 400
         /\ \A id \in IdInputs : PutBookHandler(id, body).status # 400

\* C19 witness: with an Author in the table, a body with an empty title and
\* an authorId of no Author gets the title message, a body with an authorId
\* of no Author and a year that is a string gets the message that the author
\* does not exist, and a body that fails all four rules gets the title message.
C19_Witness ==
  /\ authors # <<>>
  /\ \E body \in BookBodies :
       /\ body.title = Str(<<>>) /\ MissingAuthor(body) /\ ~BadYear(body)
       /\ PostBookHandler(body) = Fail(400, ErrBookTitle)
  /\ \E body \in BookBodies :
       /\ ~BadTitle(body) /\ MissingAuthor(body) /\ BadYear(body)
       /\ PostBookHandler(body) = Fail(400, ErrBookAuthorMissing)
  /\ \E body \in BookBodies :
       /\ BadTitle(body) /\ BadAuthorId(body) /\ BadYear(body)
       /\ PostBookHandler(body) = Fail(400, ErrBookTitle)

\* C20: requests are serialized.  Between the validation of a POST /books or
\* PUT /books/:id and its route handler no other request takes a step: the
\* tables the handler finds are the tables the validation saw, the Author the
\* foreign-key check found is still there, and so no Book is ever written
\* with the authorId of a deleted Author.
C20_Serialized ==
  /\ inflight # None =>
       /\ inflight.authors = authors
       /\ inflight.books = books
       /\ inflight.body.authorId.val \in AuthorIds
  /\ \A i \in 1..Len(books) : books[i].authorId \in AuthorIds

\* C20 witness: a PUT /books/:id that moves an existing Book to the other
\* Author has passed its validation and its handler has not run yet, so a
\* DELETE of that Author at this point would leave the Book dangling.
C20_Witness ==
  /\ inflight # None
  /\ inflight.route = PutRoute
  /\ Len(authors) = 2
  /\ \E i \in 1..Len(books) :
       /\ books[i].id = inflight.id
       /\ books[i].authorId # inflight.body.authorId.val

\* In the tables t every Book references an Author of the authors array.
NoDangling(t) ==
  \A i \in 1..Len(t.books) :
    \E j \in 1..Len(t.authors) : t.authors[j].id = t.books[i].authorId

\* C21: inside DELETE /authors/:id the Books go before the Author.  At every
\* step boundary of the handler, after each single pass of the cascade loop
\* and before and after the Author is removed, no Book references an Author
\* that is absent from the authors table; the Author is removed in the last
\* step only, and the last step leaves what the handler leaves.
C21_CascadeBeforeAuthor ==
  \A id \in IdInputs :
    LET steps == DeleteAuthorSteps(id)
        r == DeleteAuthorHandler(id)
    IN
    /\ \A k \in 1..Len(steps) : NoDangling(steps[k])
    /\ \A k \in 1..(Len(steps) - 1) : steps[k].authors = authors
    /\ steps[Len(steps)].authors = r.authors
    /\ steps[Len(steps)].books = r.books

\* C21 witness: an Author owns two Books; at a step boundary inside its
\* DELETE one of them is gone and the other is still in the table.
C21_Witness ==
  \E id \in IdInputs :
    LET steps == DeleteAuthorSteps(id) IN
    /\ DeleteAuthorHandler(id).status = 200
    /\ \E k \in 1..Len(steps) :
         /\ Len(steps[k].books) < Len(books)
         /\ \E i \in 1..Len(steps[k].books) : steps[k].books[i].authorId = id

\* C22: a successful PUT /authors/:id changes only the name, set to the
\* trimmed name of the request, and the bio of the Author with that id.  Its
\* id and its place in the table, every other Author and the whole books
\* table are as before, so every Book that referenced the Author still does.
C22_PutAuthorFrame ==
  \A id \in IdInputs : \A body \in AuthorBodies :
    LET r == PutAuthorHandler(id, body) IN
    r.status = 200 =>
      /\ id \in AuthorIds
      /\ Len(r.authors) = Len(authors)
      /\ \A i \in 1..Len(authors) :
           IF authors[i].id = id
           THEN /\ r.authors[i] = [id |-> id, name |-> Trim(body.name.val),
                                   bio |-> body.bio]
                /\ r.body = r.authors[i]
           ELSE r.authors[i] = authors[i]
      /\ r.books = books
      /\ \A i \in 1..Len(books) :
           books[i].authorId = id =>
             /\ r.books[i].authorId = id
             /\ \E j \in 1..Len(r.authors) : r.authors[j].id = id

\* C22 witness: the first of two Authors, one that a Book references, is
\* given another name and a bio by a PUT whose name has white space around it.
C22_Witness ==
  \E id \in IdInputs : \E body \in AuthorBodies :
    LET r == PutAuthorHandler(id, body) IN
    /\ Len(authors) = 2
    /\ authors[1].id = id
    /\ r.status = 200
    /\ body.name.val # Trim(body.name.val)
    /\ r.authors[1].name # authors[1].name
    /\ r.authors[1].bio # authors[1].bio
    /\ \E i \in 1..Len(books) : books[i].authorId = id

\* C23: a successful DELETE /books/:id removes exactly the Book with that id
\* and returns it.  The authors table is unchanged and every other Book stays,
\* with its fields and in the order it had.
C23_DeleteBookFrame ==
  \A id \in IdInputs :
    LET r == DeleteBookHandler(id) IN
    r.status = 200 =>
      /\ id \in BookIds
      /\ r.body.deleted.id = id
      /\ \E i \in 1..Len(books) : books[i] = r.body.deleted
      /\ r.authors = authors
      /\ r.books = SelectSeq(books, LAMBDA b : b.id # id)
      /\ Len(r.books) = Len(books) - 1

\* C23 witness: the first of two Books is deleted and the second is left.
C23_Witness ==
  \E id \in IdInputs :
    LET r == DeleteBookHandler(id) IN
    /\ Len(books) = 2
    /\ books[1].id = id
    /\ r.status = 200
    /\ r.books = << books[2] >>

\* C24: whenever GET /books carries a limit, the window is computed from the
\* limit floored at 1 and the page floored at 1 (1 when absent), whatever the
\* two values are: zero, negative or not a numeral.  The result is the
\* elements (page-1)*limit to (page-1)*limit + limit - 1 of the filtered and
\* sorted sequence, so it holds at most limit Books.  FlooredAtOne is the
\* integer a parameter stands for under that reading: a numeral below 1 and
\* a string that is no numeral are 1.
C24_LimitAndPageFlooredAtOne ==
  \A limit \in LimitParams \ { Undefined } : \A page \in PageParams :
    \A sort \in { Undefined, YearDesc } :
      LET FlooredAtOne(param) ==
            LET n == ToNumber(param) IN
            IF n = NaN THEN 1 ELSE IF n.val < 1 THEN 1 ELSE n.val
          whole == GetBooksHandler([NoQuery EXCEPT !.sort = sort]).body
          r == GetBooksHandler([NoQuery EXCEPT !.sort = sort,
                                 !.limit = limit, !.page = page])
          lim == FlooredAtOne(limit)
          pg == IF page = Undefined THEN 1 ELSE FlooredAtOne(page)
          start == (pg - 1) * lim
          zeroBased == { k \in start..(start + lim - 1) : k < Len(whole) }
      IN
      /\ r.status = 200
      /\ Len(r.body) <= lim
      /\ Len(r.body) = Cardinality(zeroBased)
      /\ \A k \in zeroBased : r.body[k - start + 1] = whole[k + 1]

\* C24 witness: over three Books, a limit that is no numeral returns all
\* three, and a page that is no numeral returns nothing under limit 2, while
\* limit 0 and page -1 are floored and return the first Book.
C24_Witness ==
  /\ Len(books) = 3
  /\ GetBooksHandler([NoQuery EXCEPT !.limit = Str(<<"a">>)]).body = books
  /\ GetBooksHandler([NoQuery EXCEPT !.limit = Numeral(2), !.page = Str(<<"a">>)]).body
       = <<>>
  /\ GetBooksHandler([NoQuery EXCEPT !.limit = Numeral(0), !.page = Str(<<"-", "1">>)]).body
       = << books[1] >>

\* C25: when GET /books carries no limit, no pagination is applied whatever
\* the page parameter is: the result is the whole sequence of the Books that
\* pass the filters, sorted, the same as without the page parameter.
C25_NoLimitNoPagination ==
  \A page \in PageParams : \A sort \in { Undefined, YearDesc } :
    \A t \in { Undefined, Str(<<"a">>) } :
      LET query == [NoQuery EXCEPT !.sort = sort, !.title = t, !.page = page]
          r == GetBooksHandler(query)
          survivors == SelectSeq(books, LAMBDA b : PassesFilters(b, query))
      IN
      /\ r.status = 200
      /\ r.body = SortStage(survivors, sort)
      /\ Len(r.body) = Len(survivors)
      /\ r.body = GetBooksHandler([query EXCEPT !.page = Undefined]).body

\* C25 witness: over three Books and without a limit, page 2, page 0 and a
\* page that is no numeral each return all three Books.
C25_Witness ==
  /\ Len(books) = 3
  /\ \A page \in { Numeral(2), Numeral(0), Str(<<"a">>) } :
       GetBooksHandler([NoQuery EXCEPT !.page = page]).body = books

\* C26: a sort parameter whose field is not one of title, year, id, authorId
\* is answered 200 with the filtered Books in insertion order.  A sort
\* parameter with a field of these four and a direction that is omitted or is
\* not "desc" sorts ascending: the Books that have the field come in
\* non-decreasing order of it, those without it last, as under "field_asc".
C26_UnknownFieldUnsortedDefaultAscending ==
  LET unknownFields == { <<"x">>, <<"x">> \o <<"_">> \o Desc, <<"_">> \o Desc, Desc,
                         <<"Y", "e", "a", "r">> \o <<"_">> \o Desc,
                         IdField \o <<"s">> \o <<"_">> \o Desc }
      notDesc == { <<>>, <<"_">>, <<"_", "x">>, <<"_", "a", "s", "c">>,
                   <<"_", "D", "E", "S", "C">>, <<"_", "d", "e", "s", "c", "x">> }
  IN
  \A t \in { Undefined, Str(<<"a">>) } :
    LET unsorted == GetBooksHandler([NoQuery EXCEPT !.title = t]).body IN
    /\ \A s \in unknownFields :
         LET r == GetBooksHandler([NoQuery EXCEPT !.title = t, !.sort = Str(s)]) IN
         /\ r.status = 200
         /\ r.body = unsorted
         /\ r.body = SelectSeq(books, LAMBDA b :
                       PassesFilters(b, [NoQuery EXCEPT !.title = t]))
    /\ \A field \in VALID_SORT_FIELDS : \A d \in notDesc :
         LET r == GetBooksHandler([NoQuery EXCEPT !.title = t, !.sort = Str(field \o d)])
             asc == GetBooksHandler([NoQuery EXCEPT !.title = t,
                      !.sort = Str(field \o <<"_", "a", "s", "c">>)]).body
             out == r.body
         IN
         /\ r.status = 200
         /\ out = asc
         /\ Range(out) = Range(unsorted) /\ Len(out) = Len(unsorted)
         /\ \A i, j \in 1..Len(out) :
              i < j =>
                \/ FieldValue(out[j], field) = Undefined
                \/ /\ FieldValue(out[i], field) # Undefined
                   /\ ~ValueLess(FieldValue(out[j], field), FieldValue(out[i], field))

\* C26 witness: three Books stored with the years 2, none, 1.  The sort
\* "x_desc" returns them as stored; "year", "year_x" and "year_DESC" return
\* them by ascending year, the Book without a year last.
C26_Witness ==
  /\ Len(books) = 3
  /\ books[1].year = Num(2) /\ books[2].year = Undefined /\ books[3].year = Num(1)
  /\ GetBooksHandler([NoQuery EXCEPT !.sort = Str(<<"x">> \o <<"_">> \o Desc)]).body
       = books
  /\ \A d \in { <<>>, <<"_", "x">>, <<"_", "D", "E", "S", "C">> } :
       IdsOf(GetBooksHandler([NoQuery EXCEPT !.sort = Str(YearField \o d)]).body)
         = <<3, 1, 2>>

\* C27: the author filter of GET /books keeps exactly the Books whose
\* authorId is the id of an Author of the authors table whose name contains
\* the filter string, case ignored.  The Authors are taken from the whole
\* table: under a title filter too, the result is the Books that pass the
\* title filter and have such an Author, whichever Books the title filter left.
C27_AuthorFilterOverWholeTable ==
  \A a \in { Str(<<"A">>), Str(<<"b">>), Str(<<"a", "B">>), Str(<<"B", "a">>) } :
    LET matching == { authors[i].id : i \in { j \in 1..Len(authors) :
                        Includes(ToLowerCase(authors[j].name), ToLowerCase(a.val)) } }
    IN
    \A t \in TitleParams :
      LET byTitle == GetBooksHandler([NoQuery EXCEPT !.title = t]).body
          r == GetBooksHandler([NoQuery EXCEPT !.title = t, !.author = a])
      IN
      /\ r.status = 200
      /\ r.body = SelectSeq(byTitle, LAMBDA b : b.authorId \in matching)
      /\ \A i \in 1..Len(byTitle) :
           ( \E k \in 1..Len(r.body) : r.body[k] = byTitle[i] )
             <=> byTitle[i].authorId \in matching

\* C27 witness: the filter "A" matches both Authors, written "a" and "Ab",
\* and keeps all three Books; the filter "b" matches one Author and keeps
\* some Books only; under the title filter "B" it keeps a Book although the
\* title filter removed another Book of the same Author.
C27_Witness ==
  LET byA == GetBooksHandler([NoQuery EXCEPT !.author = Str(<<"A">>)]).body
      byB == GetBooksHandler([NoQuery EXCEPT !.author = Str(<<"b">>)]).body
      both == GetBooksHandler([NoQuery EXCEPT !.author = Str(<<"b">>),
                                !.title = Str(<<"B">>)]).body
  IN
  /\ Len(books) = 3
  /\ { authors[i].name : i \in 1..Len(authors) } = { <<"a">>, <<"A", "b">> }
  /\ { books[i].authorId : i \in 1..Len(books) } = { 1, 2 }
  /\ byA = books
  /\ byB # <<>> /\ Len(byB) < Len(books)
  /\ both # <<>> /\ Len(both) < Len(byB)

\* C28: when the year parameter of GET /books is present (not the empty
\* string) and Number() parses it, the result holds exactly the Books whose
\* year is that number, so no Book without a year is returned.  A year
\* parameter that does not parse as a number, or is empty or absent, filters
\* nothing.
C28_YearFilterExact ==
  \A y \in YearParams \cup { Str(<<>>), Str(<<" ">>), Str(<<"0">>),
                             Str(<<"2", " ">>), Str(<<"-", "1">>), Str(<<"1", "a">>) } :
    \A t \in { Undefined, Str(<<"a">>) } :
      LET byTitle == GetBooksHandler([NoQuery EXCEPT !.title = t]).body
          r == GetBooksHandler([NoQuery EXCEPT !.title = t, !.year = y])
          parses == TypeOf(y) = "string" /\ y.val # <<>> /\ ToNumber(y) # NaN
      IN
      /\ r.status = 200
      /\ IF parses
         THEN /\ r.body = SelectSeq(byTitle, LAMBDA b : b.year = ToNumber(y))
              /\ \A k \in 1..Len(r.body) : r.body[k].year # Undefined
              /\ \A i \in 1..Len(byTitle) :
                   byTitle[i].year = ToNumber(y)
                     => \E k \in 1..Len(r.body) : r.body[k] = byTitle[i]
         ELSE r.body = byTitle

\* C28 witness: three Books with the years 2, none, 1.  The filter " 2"
\* returns the first Book alone, the filter "0" returns nothing, and the
\* filter "a" returns all three.
C28_Witness ==
  /\ Len(books) = 3
  /\ books[1].year = Num(2) /\ books[2].year = Undefined /\ books[3].year = Num(1)
  /\ GetBooksHandler([NoQuery EXCEPT !.year = Str(<<" ", "2">>)]).body = << books[1] >>
  /\ GetBooksHandler([NoQuery EXCEPT !.year = Str(<<"0">>)]).body = <<>>
  /\ GetBooksHandler([NoQuery EXCEPT !.year = Str(<<"a">>)]).body = books

\* The name of the body is the name of an Author, and the title and authorId
\* of the body are those of a Book, case and outer white space ignored.
NameInUse(body) ==
  \E i \in 1..Len(authors) :
    ToLowerCase(authors[i].name) = ToLowerCase(Trim(body.name.val))
PairInUse(body) ==
  \E i \in 1..Len(books) :
    /\ ToLowerCase(books[i].title) = ToLowerCase(Trim(body.title.val))
    /\ Num(books[i].authorId) = body.authorId

\* C29: on update the errors come in the order validation, not found,
\* conflict.  PUT /authors/:id and PUT /books/:id answer 400 for an invalid
\* body even when the id matches no record, and 404 for a valid body and an
\* id that matches no record even when the name, or the title and authorId,
\* are those of an existing record; 409 is left for an id that matches.
C29_PutErrorPrecedence ==
  \A id \in IdInputs :
    /\ \A body \in AuthorBodies :
         LET r == PutAuthorHandler(id, body) IN
         /\ ~IsValidString(body.name) => r.status = 400
         /\ ( IsValidString(body.name) /\ id \notin AuthorIds ) => r.status = 404
         /\ r.status = 409 =>
              /\ IsValidString(body.name) /\ id \in AuthorIds
              /\ \E i \in 1..Len(authors) :
                   /\ authors[i].id # id
                   /\ ToLowerCase(authors[i].name) = ToLowerCase(Trim(body.name.val))
    /\ \A body \in BookBodies :
         LET r == PutBookHandler(id, body)
             invalid == BadTitle(body) \/ BadAuthorId(body) \/ MissingAuthor(body)
                          \/ BadYear(body)
         IN
         /\ invalid => r.status = 400
         /\ ( ~invalid /\ id \notin BookIds ) => r.status = 404
         /\ r.status = 409 =>
              /\ ~invalid /\ id \in BookIds
              /\ \E i \in 1..Len(books) :
                   /\ books[i].id # id
                   /\ ToLowerCase(books[i].title) = ToLowerCase(Trim(body.title.val))
                   /\ books[i].authorId = body.authorId.val

\* C29 witness: an id of no Author and of no Book.  A valid author body with
\* the name of an Author is answered 404 and an invalid one 400; a valid book
\* body with the title and authorId of a Book is answered 404 and an invalid
\* one 400.
C29_Witness ==
  \E id \in IdInputs :
    /\ id \notin AuthorIds /\ id \notin BookIds
    /\ \E body \in AuthorBodies :
         /\ IsValidString(body.name) /\ NameInUse(body)
         /\ PutAuthorHandler(id, body).status = 404
    /\ \E body \in AuthorBodies :
         ~IsValidString(body.name) /\ PutAuthorHandler(id, body).status = 400
    /\ \E body \in BookBodies :
         /\ IsValidString(body.title) /\ TypeOf(body.authorId) = "number"
         /\ PairInUse(body)
         /\ PutBookHandler(id, body).status = 404
    /\ \E body \in BookBodies :
         BadYear(body) /\ PutBookHandler(id, body).status = 400

\* C30: PUT /authors/:id on an existing Author with a name that equals the
\* Author's own current name, case and surrounding white space ignored, is
\* never answered 409; it is answered 200.  A PUT /authors/:id is answered
\* 409 only when a different Author has the name of the body, trimmed and
\* case ignored.
C30_OwnNameNever409 ==
  \A id \in IdInputs : \A body \in AuthorBodies :
    LET r == PutAuthorHandler(id, body) IN
    /\ \A i \in 1..Len(authors) :
         ( /\ authors[i].id = id
           /\ IsValidString(body.name)
           /\ ToLowerCase(Trim(body.name.val)) = ToLowerCase(authors[i].name) )
         => r.status # 409 /\ r.status = 200
    /\ r.status = 409 =>
         \E j \in 1..Len(authors) :
           /\ authors[j].id # id
           /\ ToLowerCase(Trim(body.name.val)) = ToLowerCase(authors[j].name)

\* C30 witness: with two Authors in the table, a PUT on one of them carries
\* its own name in another case and with white space in front and is answered
\* 200, and the same body sent for the other Author is answered 409.
C30_Witness ==
  \E body \in AuthorBodies : \E i, j \in 1..Len(authors) :
    /\ i # j
    /\ TypeOf(body.name) = "string"
    /\ Trim(body.name.val) # body.name.val
    /\ Trim(body.name.val) # authors[i].name
    /\ ToLowerCase(Trim(body.name.val)) = ToLowerCase(authors[i].name)
    /\ PutAuthorHandler(authors[i].id, body).status = 200
    /\ PutAuthorHandler(authors[j].id, body).status = 409

\* C31: in every reachable state each stored Author name and each stored Book
\* title is non-empty and neither starts nor ends with white space.  POST and
\* PUT answer 400 for a name or title that is missing, not a string, or empty
\* once trimmed, and on success store the trimmed value.
C31_StoredStringsTrimmed ==
  LET clean(s) == s # <<>> /\ ~IsSpace(s[1]) /\ ~IsSpace(s[Len(s)])
      refused(v) == v = Undefined \/ TypeOf(v) # "string" \/ Trim(v.val) = <<>>
  IN
  /\ \A i \in 1..Len(authors) : clean(authors[i].name)
  /\ \A i \in 1..Len(books) : clean(books[i].title)
  /\ \A body \in AuthorBodies :
       LET post == PostAuthorHandler(body) IN
       /\ refused(body.name) => post.status = 400
       /\ post.status = 201 =>
            /\ post.authors[Len(post.authors)].name = Trim(body.name.val)
            /\ clean(post.authors[Len(post.authors)].name)
       /\ \A id \in IdInputs :
            LET put == PutAuthorHandler(id, body) IN
            /\ refused(body.name) => put.status = 400
            /\ put.status = 200 =>
                 /\ put.body.name = Trim(body.name.val)
                 /\ \A i \in 1..Len(put.authors) : clean(put.authors[i].name)
  /\ \A body \in BookBodies :
       LET post == PostBookHandler(body) IN
       /\ refused(body.title) => post.status = 400
       /\ post.status = 201 =>
            /\ post.books[Len(post.books)].title = Trim(body.title.val)
            /\ clean(post.books[Len(post.books)].title)
       /\ \A id \in IdInputs :
            LET put == PutBookHandler(id, body) IN
            /\ refused(body.title) => put.status = 400
            /\ put.status = 200 =>
                 /\ put.body.title = Trim(body.title.val)
                 /\ \A i \in 1..Len(put.books) : clean(put.books[i].title)

\* C31 witness: an Author is stored as "A" and a Book as "b", which only the
\* requests " A" and "b " carry, and a PUT /books/:id whose title has white
\* space around it is answered 200 with the trimmed title.
C31_Witness ==
  /\ \E i \in 1..Len(authors) : authors[i].name = <<"A">>
  /\ \E i \in 1..Len(books) : books[i].title = <<"b">>
  /\ \E id \in IdInputs : \E body \in BookBodies :
       /\ TypeOf(body.title) = "string"
       /\ body.title.val # Trim(body.title.val)
       /\ PutBookHandler(id, body).status = 200
       /\ PutBookHandler(id, body).body.title # body.title.val

\* C32: a newly created Author owns no Books.  In the state right after a
\* successful POST /authors, which is the only step that makes the authors
\* table longer, GET /authors/:id/books for the id of the new Author answers
\* 200 with the empty list, whether or not the id was given before.
C32_NewAuthorOwnsNoBooks ==
  [][ Len(authors') = Len(authors) + 1 =>
        \A id \in IdInputs :
          id = authors'[Len(authors')].id =>
            /\ id \notin AuthorIds
            /\ GetAuthorBooksHandler(id)'.status = 200
            /\ GetAuthorBooksHandler(id)'.body = <<>>
            /\ \A i \in 1..Len(books') : books'[i].authorId # id ]_vars

\* C32 witness: an Author has been deleted, Books have gone and others are
\* left, and a POST /authors succeeds with the id of the deleted Author; no
\* Book of the table carries that id.
C32_Witness ==
  \E body \in AuthorBodies :
    LET r == PostAuthorHandler(body) IN
    /\ r.status = 201
    /\ Len(authors) < MaxAuthors
    /\ gone.authors = { r.body.id }
    /\ gone.books # {}
    /\ books # <<>>
    /\ FilterByAuthorId(r.books, r.body.id) = <<>>
====
